---------------------------- MODULE Spec2Model ----------------------------
(***************************************************************************)
(* Shipyard Engine v1 (ticket orchestrator): the edit resolution and        *)
(* validation pipeline -- parseTicket, fetchScopeFiles, safeReplace,        *)
(* validateModelFiles, runSanityRails and the stage sequence of run().      *)
(*                                                                         *)
(* A JavaScript string is a sequence of lexemes.  A lexeme is a string     *)
(* atom standing for a fixed run of characters: a single character such as *)
(* ".", "/", " ", "=", or a run of ordinary characters that contains no     *)
(* separator ("src", "layout.tsx", "pink").  startsWith, endsWith,          *)
(* indexOf, includes, split and join are computed on these sequences the    *)
(* way the code computes them on characters.                                *)
(***************************************************************************)
EXTENDS Integers, Sequences, FiniteSets, TLC

VARIABLES
    pc,          \* position of run(): the stage about to execute
    env,         \* process.env: the variables run() reads
    doc,         \* the ticket file: its candidate blocks, decoded
    repo,        \* the base branch: the getContent response for each path
    reply,       \* the reply of the generative source
    ticket,      \* the ticket parseTicket returned
    scopeFiles,  \* the files fetchScopeFiles returned
    modelFiles,  \* the candidate files of the run (modelFiles in run())
    error,       \* message of the error thrown, "none" when none
    log,         \* the stage banners run() has printed, in order
    rails,       \* the last call of runSanityRails: its argument and outcome
    branch,      \* TRUE once ensureBranch created the feature branch
    committed,   \* the files commitFiles has written, in order
    pr,          \* TRUE once the pull request is open
    exitCode,    \* process.exitCode
    shas,        \* the sha argument of each file update commitFiles sent
    merge,       \* auto-merge arming and the scripted merge fallback
    presetRules    \* the value buildColorPresetReplacements returned

vars == <<pc, env, doc, repo, reply, ticket, scopeFiles, modelFiles, error, log,
          rails, branch, committed, pr, exitCode, shas, merge, presetRules>>

(***************************************************************************)
(* Bounds of the model.                                                    *)
(***************************************************************************)
MaxRawLen == 3      \* lexemes in a raw scope entry / candidate path
MaxScope == 1       \* entries in a ticket scope of the parse specification
MaxExtra == 1       \* entries of a file sequence beyond MAX_FILES
MaxChunks == 3      \* chunks a candidate content is concatenated from
MaxContentLen == 3  \* lexemes in a fetched content of the replace specification
MaxRules == 2       \* rules of a directive of the replace specification
MaxTokens == 2      \* tokens of a find_any rule of the replace specification
MaxDirectives == 2  \* directives of a mixed safe_replace list
MaxPolls == 2       \* checks.listForRef requests before the deadline of waitForCheck
MaxCheckRuns == 2   \* check runs in one answer of checks.listForRef
MaxClasses == 2     \* class tokens of a content a color preset is applied to
MaxKinds == 2       \* entries of the kinds list of a color preset
MaxShades == 2      \* entries of the shades list of a color preset

(***************************************************************************)
(* Program constants.                                                      *)
(***************************************************************************)
MAX_FILES == 5
MAX_FILE_SIZE == 200 * 1024
SANITY_MAX_SIZE == 200000

(***************************************************************************)
(* String primitives.                                                      *)
(***************************************************************************)
StartsWith(s, p) == Len(p) <= Len(s) /\ SubSeq(s, 1, Len(p)) = p

EndsWith(s, p) == Len(p) <= Len(s) /\ SubSeq(s, Len(s) - Len(p) + 1, Len(s)) = p

\* String.prototype.indexOf: the 0-based offset of the first occurrence, -1 if none
IndexOf(s, t) ==
    LET hits == {i \in 0..(Len(s) - Len(t)) : SubSeq(s, i + 1, i + Len(t)) = t}
    IN  IF hits = {} THEN -1 ELSE CHOOSE i \in hits : \A j \in hits : i <= j

Includes(s, t) == IndexOf(s, t) # -1

\* the whitespace lexemes: space, U+0009, U+000A, U+000D
IsSpace(u) == u \in {" ", "TAB", "LF", "CR"}

\* String.prototype.trim
RECURSIVE TrimLeft(_)
TrimLeft(s) == IF s # <<>> /\ IsSpace(Head(s)) THEN TrimLeft(Tail(s)) ELSE s

RECURSIVE TrimRight(_)
TrimRight(s) ==
    IF s # <<>> /\ IsSpace(s[Len(s)]) THEN TrimRight(SubSeq(s, 1, Len(s) - 1)) ELSE s

Trim(s) == TrimRight(TrimLeft(s))

\* s.replace(/\/+$/, "")
RECURSIVE StripTrailingSlashes(_)
StripTrailingSlashes(s) ==
    IF s # <<>> /\ s[Len(s)] = "/"
    THEN StripTrailingSlashes(SubSeq(s, 1, Len(s) - 1))
    ELSE s

\* s.replace(/^\.\//, "")
StripDotSlash(s) == IF StartsWith(s, <<".", "/">>) THEN SubSeq(s, 3, Len(s)) ELSE s

(***************************************************************************)
(* path.posix.normalize.                                                   *)
(***************************************************************************)
\* the segments between the "/" separators, empty ones included
RECURSIVE SplitSlash(_, _, _)
SplitSlash(s, cur, acc) ==
    IF s = <<>> THEN Append(acc, cur)
    ELSE IF Head(s) = "/" THEN SplitSlash(Tail(s), <<>>, Append(acc, cur))
    ELSE SplitSlash(Tail(s), Append(cur, Head(s)), acc)

DotDot == <<".", ".">>

\* normalizeString: drop "" and ".", resolve ".." against the previous segment
RECURSIVE NormalizeSegments(_, _, _)
NormalizeSegments(segs, out, allowAboveRoot) ==
    IF segs = <<>> THEN out
    ELSE LET seg == Head(segs)
             rest == Tail(segs)
         IN  IF seg = <<>> \/ seg = <<".">>
             THEN NormalizeSegments(rest, out, allowAboveRoot)
             ELSE IF seg = DotDot
             THEN IF out # <<>> /\ out[Len(out)] # DotDot
                  THEN NormalizeSegments(rest, SubSeq(out, 1, Len(out) - 1), allowAboveRoot)
                  ELSE IF allowAboveRoot
                  THEN NormalizeSegments(rest, Append(out, seg), allowAboveRoot)
                  ELSE NormalizeSegments(rest, out, allowAboveRoot)
             ELSE NormalizeSegments(rest, Append(out, seg), allowAboveRoot)

RECURSIVE JoinSlash(_)
JoinSlash(segs) ==
    IF segs = <<>> THEN <<>>
    ELSE IF Len(segs) = 1 THEN Head(segs)
    ELSE Head(segs) \o <<"/">> \o JoinSlash(Tail(segs))

Normalize(p) ==
    IF p = <<>> THEN <<".">>
    ELSE LET isAbsolute == Head(p) = "/"
             trailingSeparator == p[Len(p)] = "/"
             body == JoinSlash(NormalizeSegments(SplitSlash(p, <<>>, <<>>), <<>>, ~isAbsolute))
         IN  IF body = <<>>
             THEN IF isAbsolute THEN <<"/">>
                  ELSE IF trailingSeparator THEN <<".", "/">> ELSE <<".">>
             ELSE (IF isAbsolute THEN <<"/">> ELSE <<>>) \o body
                  \o (IF trailingSeparator THEN <<"/">> ELSE <<>>)

\* the check both parseTicket and the edit paths use for a path that escapes
EscapesRepository(p) == StartsWith(p, <<".", ".", "/">>)


(***************************************************************************)
(* JavaScript values of the decoded ticket: a tag and, for a string or an  *)
(* array, its content.                                                     *)
(***************************************************************************)
Undef == [t |-> "undefined", v |-> <<>>]

Str(s) == [t |-> "string", v |-> s]

Arr(items) == [t |-> "array", v |-> items]

\* the number 500; v holds its decimal form, what String(x) returns
Num == [t |-> "number", v |-> <<"500">>]

\* !x is false
Truthy(x) == x.t # "undefined" /\ ~(x.t = "string" /\ x.v = <<>>)

IsArray(x) == x.t = "array"

(***************************************************************************)
(* parseTicket.  A document holds up to three candidate blocks; a block is *)
(* absent, empty, malformed YAML, YAML of a scalar, or YAML of a mapping.  *)
(***************************************************************************)
NoObj ==
    [title |-> Undef, why |-> Undef, scope |-> Undef, dod |-> Undef,
     guardrails |-> Undef, safe_replace |-> Undef]

Absent == [kind |-> "absent", obj |-> NoObj]

NoTicket == [title |-> <<>>, scope |-> <<>>, safe_replace |-> Undef]

\* /```(?:yaml)?\n([\s\S]*?)\n```/ matches: the document has a code fence
\* that opens with the tag yaml or with no tag
FencedMatch(d) == d.fenced.kind # "absent" /\ d.fence \in {"yaml", "untagged"}

\* a selection that goes on to the next form when a block does not decode
\* to a mapping
SelectBlockFirstDecodable(d) ==
    IF d.front.kind = "object" THEN d.front
    ELSE IF FencedMatch(d) /\ d.fenced.kind = "object" THEN d.fenced
    ELSE d.heading

\* front matter first, else the fenced block, else the heading form
SelectBlock(d) ==
    IF d.front.kind # "absent" THEN d.front
    ELSE IF FencedMatch(d) THEN d.fenced
    ELSE d.heading

\* the callback of ticket.scope.map: the normalized entry, or the error thrown
NormalizeScopeEntry(entry) ==
    IF entry.t # "string" \/ Trim(entry.v) = <<>>
    THEN [err |-> "Ticket scope entries must be non-empty strings.", path |-> <<>>]
    ELSE LET trimmed == Trim(entry.v)
             isDirectory == EndsWith(trimmed, <<"/">>)
             normalized == Normalize(IF isDirectory THEN StripTrailingSlashes(trimmed)
                                     ELSE trimmed)
             finalPath == StripDotSlash(normalized)
         IN  IF EscapesRepository(normalized)
             THEN [err |-> "Scope path escapes repository", path |-> <<>>]
             ELSE [err |-> "none",
                   path |-> IF isDirectory THEN finalPath \o <<"/">> ELSE finalPath]

\* the first error the map throws, "none" when every entry normalizes
RECURSIVE FirstError(_)
FirstError(results) ==
    IF results = <<>> THEN "none"
    ELSE IF Head(results).err # "none" THEN Head(results).err
    ELSE FirstError(Tail(results))

MissingField(obj) ==
    IF ~Truthy(obj.title) THEN "title"
    ELSE IF ~Truthy(obj.why) THEN "why"
    ELSE IF ~Truthy(obj.scope) THEN "scope"
    ELSE IF ~Truthy(obj.dod) THEN "dod"
    ELSE "none"

Fail(msg) == [err |-> msg, ticket |-> NoTicket]

ParseTicket(d) ==
    LET block == SelectBlock(d)
        obj == block.obj
        mapped == [i \in 1..Len(obj.scope.v) |-> NormalizeScopeEntry(obj.scope.v[i])]
    IN  IF block.kind \in {"absent", "empty"}
        THEN Fail("Unable to locate ticket YAML block.")
        ELSE IF block.kind = "malformed" THEN Fail("Failed to parse ticket YAML")
        ELSE IF block.kind # "object" THEN Fail("Ticket YAML did not produce an object.")
        ELSE IF MissingField(obj) # "none" THEN Fail("Ticket missing required field")
        ELSE IF ~IsArray(obj.scope) \/ Len(obj.scope.v) = 0
        THEN Fail("Ticket scope must be a non-empty array.")
        ELSE IF FirstError(mapped) # "none" THEN Fail(FirstError(mapped))
        ELSE IF Truthy(obj.guardrails) /\ ~IsArray(obj.guardrails)
        THEN Fail("Ticket guardrails must be an array when provided.")
        ELSE [err |-> "none",
              ticket |-> [title |-> obj.title.v,
                          scope |-> [i \in 1..Len(mapped) |-> mapped[i].path],
                          safe_replace |-> obj.safe_replace]]

(***************************************************************************)
(* Buffers and encodings.  A buffer is a sequence of pairs: <<"utf8", u>>  *)
(* is the UTF-8 bytes of the text lexeme u and <<"byte", "0xFF">> a byte   *)
(* that is no valid UTF-8.  A base64 string is a sequence of pairs too:    *)
(* <<"b64", x>> stands for the base64 characters carrying the element x of *)
(* a buffer, <<"=", x>> for a padding character and <<"!", x>> for a       *)
(* character outside the base64 alphabet, x being <<"none", "">>.          *)
(***************************************************************************)
\* code points of the single-character lexemes the model names
CharCode ==
    [u \in {"NUL", "BEL", "TAB", "LF", "VT", "CR", "ESC", "DEL", "U+FFFD"} |->
        CASE u = "NUL" -> 0
          [] u = "BEL" -> 7
          [] u = "TAB" -> 9
          [] u = "LF" -> 10
          [] u = "VT" -> 11
          [] u = "CR" -> 13
          [] u = "ESC" -> 27
          [] u = "DEL" -> 127
          [] u = "U+FFFD" -> 65533]

\* bytes of a lexeme in UTF-8; "x*n" is a run of n letters x
LexBytes(u) ==
    CASE u = "x*199999" -> 199999
      [] u = "x*4800" -> 4800
      [] u = "U+FFFD" -> 3
      [] u \in DOMAIN CharCode -> 1
      [] u = "0xFF" -> 1
      [] OTHER -> Len(u)

\* buffer.length, and Buffer.byteLength(text, "utf8")
\* buffer.length: the bytes a buffer holds
RECURSIVE ByteLength(_)
ByteLength(buf) ==
    IF buf = <<>> THEN 0 ELSE LexBytes(Head(buf)[2]) + ByteLength(Tail(buf))

\* buffer.toString("utf8"): a byte that is no UTF-8 decodes to U+FFFD
Utf8Decode(buf) ==
    [i \in 1..Len(buf) |-> IF buf[i][1] = "utf8" THEN buf[i][2] ELSE "U+FFFD"]

\* Buffer.from(text, "utf8")
Utf8Encode(text) == [i \in 1..Len(text) |-> <<"utf8", text[i]>>]

\* Buffer.from(s, "base64"): characters outside the alphabet are skipped,
\* the first "=" ends the decoding; it never throws
RECURSIVE Base64Decode(_)
Base64Decode(s) ==
    IF s = <<>> THEN <<>>
    ELSE IF Head(s)[1] = "=" THEN <<>>
    ELSE IF Head(s)[1] = "!" THEN Base64Decode(Tail(s))
    ELSE <<Head(s)[2]>> \o Base64Decode(Tail(s))

\* buffer.toString("base64"): padded to a multiple of three bytes
Base64Encode(buf) ==
    [i \in 1..Len(buf) |-> <<"b64", buf[i]>>]
    \o [i \in 1..((3 - (ByteLength(buf) % 3)) % 3) |-> <<"=", <<"none", "">>>>]

(***************************************************************************)
(* validateModelFiles.                                                     *)
(***************************************************************************)
\* containment by exact match or a directory-marked entry only
IsWithinScopeMarkedOnly(normalizedPath, scope) ==
    \E i \in 1..Len(scope) :
        \/ normalizedPath = scope[i]
        \/ EndsWith(scope[i], <<"/">>) /\ StartsWith(normalizedPath, scope[i])

\* normalizedScope.some(...): the containment predicate of both edit paths
IsWithinScope(normalizedPath, scope) ==
    \E i \in 1..Len(scope) :
        LET scopeEntry == scope[i]
        IN  IF EndsWith(scopeEntry, <<"/">>)
            THEN StartsWith(normalizedPath, scopeEntry)
            ELSE \/ normalizedPath = scopeEntry
                 \/ StartsWith(normalizedPath, scopeEntry \o <<"/">>)

NoFile == [path |-> <<>>, contents |-> <<>>, base64 |-> <<>>]

\* the callback of modelFiles.map: the candidate file, or the error thrown
ValidateEntry(file, scope) ==
    IF file.path.t # "string" \/ file.contents_base64.t # "string"
    THEN [err |-> "Each file entry must include 'path' and 'contents_base64'.",
          file |-> NoFile]
    ELSE LET normalizedPath == Normalize(StripDotSlash(file.path.v))
             buffer == Base64Decode(file.contents_base64.v)
         IN  IF EscapesRepository(normalizedPath)
             THEN [err |-> "File path escapes repository", file |-> NoFile]
             ELSE IF ~IsWithinScope(normalizedPath, scope)
             THEN [err |-> "Model attempted to modify path outside scope", file |-> NoFile]
             ELSE IF ByteLength(buffer) = 0
             THEN [err |-> "Decoded contents empty", file |-> NoFile]
             ELSE IF ByteLength(buffer) > MAX_FILE_SIZE
             THEN [err |-> "Decoded contents exceed MAX_FILE_SIZE bytes", file |-> NoFile]
             ELSE [err |-> "none",
                   file |-> [path |-> normalizedPath,
                             contents |-> Utf8Decode(buffer),
                             base64 |-> file.contents_base64.v]]

NoFiles(msg) == [err |-> msg, files |-> <<>>]

\* the count bound taken as "MAX_FILES or more"
ValidateModelFilesBelowMax(files, scope) ==
    LET mapped == [i \in 1..Len(files.v) |-> ValidateEntry(files.v[i], scope)]
    IN  IF ~IsArray(files) \/ Len(files.v) = 0
        THEN NoFiles("JSON response must include at least one file.")
        ELSE IF Len(files.v) >= MAX_FILES
        THEN NoFiles("Refusing to modify more than MAX_FILES files.")
        ELSE IF FirstError(mapped) # "none" THEN NoFiles(FirstError(mapped))
        ELSE [err |-> "none", files |-> [i \in 1..Len(mapped) |-> mapped[i].file]]

ValidateModelFiles(files, scope) ==
    LET mapped == [i \in 1..Len(files.v) |-> ValidateEntry(files.v[i], scope)]
    IN  IF ~IsArray(files) \/ Len(files.v) = 0
        THEN NoFiles("JSON response must include at least one file.")
        ELSE IF Len(files.v) > MAX_FILES
        THEN NoFiles("Refusing to modify more than MAX_FILES files.")
        ELSE IF FirstError(mapped) # "none" THEN NoFiles(FirstError(mapped))
        ELSE [err |-> "none", files |-> [i \in 1..Len(mapped) |-> mapped[i].file]]

(***************************************************************************)
(* Color presets: buildColorPresetReplacements and applyColorPresets.      *)
(***************************************************************************)
COLOR_PRESET_COLORS == <<"red", "orange", "pink", "purple", "green">>

COLOR_PRESET_KIND_SET ==
    {<<"text">>, <<"hover", ":", "text">>, <<"bg">>, <<"hover", ":", "bg">>,
     <<"active", ":", "bg">>, <<"focus", "-", "visible", ":", "ring">>}

COLOR_PRESET_SHADE_SET == {<<"500">>, <<"600">>, <<"700">>}

\* String(x || "").trim()
TrimmedString(x) == IF Truthy(x) THEN Trim(x.v) ELSE <<>>

\* `${kind}-${color}-${shade}`
ColorToken(kind, color, shade) == kind \o <<"-", color, "-">> \o shade

Rule(find, find_any, replace) ==
    [t |-> "object", find |-> find, find_any |-> find_any, replace |-> replace]

\* an expansion whose outer loop runs over the shades
BuildColorPresetShadesMajor(preset) ==
    IF preset.t \notin {"object", "array"} THEN [err |-> "none", rules |-> <<>>]
    ELSE IF preset.t = "array"
    THEN [err |-> "color_preset requires a 'target' color.", rules |-> <<>>]
    ELSE
    LET target == TrimmedString(preset.target)
        kinds == IF IsArray(preset.kinds) /\ Len(preset.kinds.v) > 0
                 THEN preset.kinds.v ELSE <<Str(<<"text">>)>>
        shades == IF IsArray(preset.shades) /\ Len(preset.shades.v) > 0
                  THEN preset.shades.v ELSE <<Num>>
        n == Len(kinds) * Len(shades)
        kindOf(k) == TrimmedString(kinds[((k - 1) % Len(kinds)) + 1])
        shadeOf(k) == TrimmedString(shades[((k - 1) \div Len(kinds)) + 1])
        pairError(k) ==
            IF kindOf(k) \notin COLOR_PRESET_KIND_SET
            THEN "color_preset kind must be one of"
            ELSE IF shadeOf(k) \notin COLOR_PRESET_SHADE_SET
            THEN "color_preset shades must be within"
            ELSE "none"
        bad == {k \in 1..n : pairError(k) # "none"}
    IN  IF target = <<>>
        THEN [err |-> "color_preset requires a 'target' color.", rules |-> <<>>]
        ELSE IF ~\E c \in 1..Len(COLOR_PRESET_COLORS) : <<COLOR_PRESET_COLORS[c]>> = target
        THEN [err |-> "color_preset target must be one of", rules |-> <<>>]
        ELSE IF bad # {}
        THEN [err |-> pairError(CHOOSE k \in bad : \A j \in bad : k <= j), rules |-> <<>>]
        ELSE [err |-> "none",
              rules |-> [k \in 1..n |->
                  Rule(Undef,
                       Arr([c \in 1..Len(COLOR_PRESET_COLORS) |->
                              Str(ColorToken(kindOf(k), COLOR_PRESET_COLORS[c], shadeOf(k)))]),
                       Str(ColorToken(kindOf(k), target[1], shadeOf(k))))]]

\* the preset of an entry expanded into its rules, or the error thrown
BuildColorPresetReplacements(preset) ==
    IF preset.t \notin {"object", "array"} THEN [err |-> "none", rules |-> <<>>]
    ELSE IF preset.t = "array"
    THEN [err |-> "color_preset requires a 'target' color.", rules |-> <<>>]
    ELSE
    LET target == TrimmedString(preset.target)
        kinds == IF IsArray(preset.kinds) /\ Len(preset.kinds.v) > 0
                 THEN preset.kinds.v ELSE <<Str(<<"text">>)>>
        shades == IF IsArray(preset.shades) /\ Len(preset.shades.v) > 0
                  THEN preset.shades.v ELSE <<Num>>
        n == Len(kinds) * Len(shades)
        kindOf(k) == TrimmedString(kinds[((k - 1) \div Len(shades)) + 1])
        shadeOf(k) == TrimmedString(shades[((k - 1) % Len(shades)) + 1])
        pairError(k) ==
            IF kindOf(k) \notin COLOR_PRESET_KIND_SET
            THEN "color_preset kind must be one of"
            ELSE IF shadeOf(k) \notin COLOR_PRESET_SHADE_SET
            THEN "color_preset shades must be within"
            ELSE "none"
        bad == {k \in 1..n : pairError(k) # "none"}
    IN  IF target = <<>>
        THEN [err |-> "color_preset requires a 'target' color.", rules |-> <<>>]
        ELSE IF ~\E c \in 1..Len(COLOR_PRESET_COLORS) : <<COLOR_PRESET_COLORS[c]>> = target
        THEN [err |-> "color_preset target must be one of", rules |-> <<>>]
        ELSE IF bad # {}
        THEN [err |-> pairError(CHOOSE k \in bad : \A j \in bad : k <= j), rules |-> <<>>]
        ELSE [err |-> "none",
              rules |-> [k \in 1..n |->
                  Rule(Undef,
                       Arr([c \in 1..Len(COLOR_PRESET_COLORS) |->
                              Str(ColorToken(kindOf(k), COLOR_PRESET_COLORS[c], shadeOf(k)))]),
                       Str(ColorToken(kindOf(k), target[1], shadeOf(k))))]]

\* the callback of replacements.map in applyColorPresets
ExpandEntry(entry) ==
    IF entry.t # "object" THEN [err |-> "none", entry |-> entry]
    ELSE IF IsArray(entry.replacements) /\ Len(entry.replacements.v) > 0
    THEN [err |-> "none", entry |-> entry]
    ELSE IF ~Truthy(entry.color_preset) THEN [err |-> "none", entry |-> entry]
    ELSE LET generated == BuildColorPresetReplacements(entry.color_preset)
         IN  IF generated.err # "none" THEN [err |-> generated.err, entry |-> entry]
             ELSE IF generated.rules = <<>> THEN [err |-> "none", entry |-> entry]
             ELSE [err |-> "none",
                   entry |-> [entry EXCEPT !.replacements = Arr(generated.rules)]]

(***************************************************************************)
(* safeReplace.                                                            *)
(***************************************************************************)
\* String.prototype.split(t) for a non-empty t
RECURSIVE SplitOn(_, _, _)
SplitOn(s, t, cur) ==
    IF s = <<>> THEN <<cur>>
    ELSE IF StartsWith(s, t)
    THEN <<cur>> \o SplitOn(SubSeq(s, Len(t) + 1, Len(s)), t, <<>>)
    ELSE SplitOn(Tail(s), t, Append(cur, Head(s)))

\* an empty separator splits between every two characters
Split(s, t) == IF t = <<>> THEN [i \in 1..Len(s) |-> <<s[i]>>] ELSE SplitOn(s, t, <<>>)

\* Array.prototype.join
RECURSIVE Join(_, _)
Join(segs, sep) ==
    IF segs = <<>> THEN <<>>
    ELSE IF Len(segs) = 1 THEN segs[1]
    ELSE segs[1] \o sep \o Join(Tail(segs), sep)

\* the scan keeping the token with the highest indexOf
RECURSIVE ChooseTokenHighest(_, _, _)
ChooseTokenHighest(content, tokenList, chosen) ==
    IF tokenList = <<>> THEN chosen
    ELSE IF IndexOf(content, Head(tokenList)) # -1
            /\ (~chosen.found \/ IndexOf(content, Head(tokenList)) > chosen.index)
    THEN ChooseTokenHighest(content, Tail(tokenList),
                            [found |-> TRUE, token |-> Head(tokenList),
                             index |-> IndexOf(content, Head(tokenList))])
    ELSE ChooseTokenHighest(content, Tail(tokenList), chosen)

\* the scan stopping at the first listed token that occurs
RECURSIVE ChooseTokenFirstListed(_, _, _)
ChooseTokenFirstListed(content, tokenList, chosen) ==
    IF tokenList = <<>> THEN chosen
    ELSE IF IndexOf(content, Head(tokenList)) # -1
    THEN [found |-> TRUE, token |-> Head(tokenList),
          index |-> IndexOf(content, Head(tokenList))]
    ELSE ChooseTokenFirstListed(content, Tail(tokenList), chosen)

\* the scan of a find_any rule: the listed token with the lowest indexOf,
\* the earlier listed one when two share it
RECURSIVE ChooseToken(_, _, _)
ChooseToken(content, tokenList, chosen) ==
    IF tokenList = <<>> THEN chosen
    ELSE LET token == Head(tokenList)
             index == IndexOf(content, token)
         IN  IF index # -1 /\ (~chosen.found \/ index < chosen.index)
             THEN ChooseToken(content, Tail(tokenList),
                              [found |-> TRUE, token |-> token, index |-> index])
             ELSE ChooseToken(content, Tail(tokenList), chosen)

NotChosen == [found |-> FALSE, token |-> <<>>, index |-> 0]

RuleResult(msg, content, occurrences) ==
    [err |-> msg, content |-> content, occurrences |-> occurrences]

\* the iteration raising on a find token the content does not hold
ApplyRuleRaisingOnMissing(replacement, content) ==
    IF replacement.t # "object"
    THEN RuleResult("SafeReplace replacements require a replacement object.", content, 0)
    ELSE IF replacement.replace.t # "string"
    THEN RuleResult("SafeReplace replacements require a 'replace' string.", content, 0)
    ELSE IF replacement.find.t = "string"
    THEN LET segments == Split(content, replacement.find.v)
         IN  IF Len(segments) = 1
             THEN RuleResult("SafeReplace: token not found", content, 0)
             ELSE RuleResult("none", Join(segments, replacement.replace.v),
                             Len(segments) - 1)
    ELSE IF IsArray(replacement.find_any)
    THEN LET trimmed == [i \in 1..Len(replacement.find_any.v) |->
                            TrimmedString(replacement.find_any.v[i])]
             tokenList == SelectSeq(trimmed, LAMBDA token : token # <<>>)
             chosen == ChooseToken(content, tokenList, NotChosen)
             segments == Split(content, chosen.token)
         IN  IF tokenList = <<>>
             THEN RuleResult("SafeReplace replacements require non-empty 'find_any' strings.",
                             content, 0)
             ELSE IF ~chosen.found THEN RuleResult("none", content, 0)
             ELSE RuleResult("none", Join(segments, replacement.replace.v),
                             Len(segments) - 1)
    ELSE RuleResult("SafeReplace replacements require either 'find' or 'find_any'.",
                    content, 0)

\* the iteration passing over a rule that has neither find nor find_any
ApplyRuleSkippingUnknown(replacement, content) ==
    IF replacement.t # "object"
    THEN RuleResult("SafeReplace replacements require a replacement object.", content, 0)
    ELSE IF replacement.replace.t # "string"
    THEN RuleResult("SafeReplace replacements require a 'replace' string.", content, 0)
    ELSE IF replacement.find.t = "string"
    THEN LET segments == Split(content, replacement.find.v)
         IN  IF Len(segments) = 1 THEN RuleResult("none", content, 0)
             ELSE RuleResult("none", Join(segments, replacement.replace.v),
                             Len(segments) - 1)
    ELSE IF IsArray(replacement.find_any)
    THEN LET trimmed == [i \in 1..Len(replacement.find_any.v) |->
                            TrimmedString(replacement.find_any.v[i])]
             tokenList == SelectSeq(trimmed, LAMBDA token : token # <<>>)
             chosen == ChooseToken(content, tokenList, NotChosen)
             segments == Split(content, chosen.token)
         IN  IF tokenList = <<>>
             THEN RuleResult("SafeReplace replacements require non-empty 'find_any' strings.",
                             content, 0)
             ELSE IF ~chosen.found THEN RuleResult("none", content, 0)
             ELSE RuleResult("none", Join(segments, replacement.replace.v),
                             Len(segments) - 1)
    ELSE RuleResult("none", content, 0)

\* one iteration of the loop over entry.replacements
ApplyRule(replacement, content) ==
    IF replacement.t # "object"
    THEN RuleResult("SafeReplace replacements require a replacement object.", content, 0)
    ELSE IF replacement.replace.t # "string"
    THEN RuleResult("SafeReplace replacements require a 'replace' string.", content, 0)
    ELSE IF replacement.find.t = "string"
    THEN LET segments == Split(content, replacement.find.v)
         IN  IF Len(segments) = 1 THEN RuleResult("none", content, 0)
             ELSE RuleResult("none", Join(segments, replacement.replace.v),
                             Len(segments) - 1)
    ELSE IF IsArray(replacement.find_any)
    THEN LET trimmed == [i \in 1..Len(replacement.find_any.v) |->
                            TrimmedString(replacement.find_any.v[i])]
             tokenList == SelectSeq(trimmed, LAMBDA token : token # <<>>)
             chosen == ChooseToken(content, tokenList, NotChosen)
             segments == Split(content, chosen.token)
         IN  IF tokenList = <<>>
             THEN RuleResult("SafeReplace replacements require non-empty 'find_any' strings.",
                             content, 0)
             ELSE IF ~chosen.found THEN RuleResult("none", content, 0)
             ELSE RuleResult("none", Join(segments, replacement.replace.v),
                             Len(segments) - 1)
    ELSE RuleResult("SafeReplace replacements require either 'find' or 'find_any'.",
                    content, 0)

\* the loop taking the rules from the last to the first
RECURSIVE ApplyRulesReversed(_, _)
ApplyRulesReversed(rules, st) ==
    IF rules = <<>> \/ st.err # "none" THEN st
    ELSE LET r == ApplyRule(rules[Len(rules)], st.content)
         IN  ApplyRulesReversed(SubSeq(rules, 1, Len(rules) - 1),
                        [err |-> r.err,
                         content |-> r.content,
                         modified |-> st.modified \/ r.occurrences > 0,
                         count |-> st.count + (IF r.occurrences > 0 THEN r.occurrences ELSE 0)])

\* the loop over entry.replacements: content, modified and replacementCount
RECURSIVE ApplyRules(_, _)
ApplyRules(rules, st) ==
    IF rules = <<>> \/ st.err # "none" THEN st
    ELSE LET r == ApplyRule(Head(rules), st.content)
         IN  ApplyRules(Tail(rules),
                        [err |-> r.err,
                         content |-> r.content,
                         modified |-> st.modified \/ r.occurrences > 0,
                         count |-> st.count + (IF r.occurrences > 0 THEN r.occurrences ELSE 0)])

\* scopeMap.get(normalizedPath): the last fetched file with that normalized path
ScopeFileIndex(scopeFs, normalizedPath) ==
    LET hits == {i \in 1..Len(scopeFs) : Normalize(scopeFs[i].path) = normalizedPath}
    IN  IF hits = {} THEN 0 ELSE CHOOSE i \in hits : \A j \in hits : j <= i

EntryResult(msg, emit, path, content) ==
    [err |-> msg, emit |-> emit,
     file |-> [path |-> Str(path),
               contents_base64 |-> Str(Base64Encode(Utf8Encode(content)))]]

\* the end of an iteration emitting whenever a rule matched
EmitEntryWhenModified(normalizedPath, originalContent, out) ==
    IF out.err # "none" THEN EntryResult(out.err, FALSE, <<>>, <<>>)
    ELSE IF out.modified
    THEN EntryResult("none", TRUE, normalizedPath, out.content)
    ELSE EntryResult("none", FALSE, <<>>, <<>>)

\* the end of an iteration: the entry is emitted when its content changed
EmitEntry(normalizedPath, originalContent, out) ==
    IF out.err # "none" THEN EntryResult(out.err, FALSE, <<>>, <<>>)
    ELSE IF out.modified /\ out.content # originalContent
    THEN EntryResult("none", TRUE, normalizedPath, out.content)
    ELSE EntryResult("none", FALSE, <<>>, <<>>)

\* an iteration from scopeMap.get on; k is the index of the fetched file
ProcessFile(entry, normalizedPath, k, scopeFs) ==
    IF k = 0
    THEN EntryResult("SafeReplace path not found in scope files", FALSE, <<>>, <<>>)
    ELSE IF ~IsArray(entry.replacements) \/ Len(entry.replacements.v) = 0
    THEN EntryResult("none", FALSE, <<>>, <<>>)
    ELSE EmitEntry(normalizedPath, scopeFs[k].content,
                   ApplyRules(entry.replacements.v,
                              [err |-> "none", content |-> scopeFs[k].content,
                               modified |-> FALSE, count |-> 0]))

\* an iteration from the checks of the normalized path on
ProcessPath(entry, normalizedPath, scope, scopeFs) ==
    IF EscapesRepository(normalizedPath)
    THEN EntryResult("SafeReplace path escapes repository", FALSE, <<>>, <<>>)
    ELSE IF ~IsWithinScope(normalizedPath, scope)
    THEN EntryResult("SafeReplace path outside scope", FALSE, <<>>, <<>>)
    ELSE ProcessFile(entry, normalizedPath, ScopeFileIndex(scopeFs, normalizedPath),
                     scopeFs)

\* one iteration of the loop over expandedReplacements
ProcessEntry(entry, scope, scopeFs) ==
    IF entry.t # "object" \/ entry.path.t # "string"
    THEN EntryResult("SafeReplace entries require a 'path' string.", FALSE, <<>>, <<>>)
    ELSE ProcessPath(entry, Normalize(StripDotSlash(entry.path.v)), scope, scopeFs)

\* the first error of the expansion or of the loop, else the emitted files
CollectEmitted(expanded, results) ==
    IF FirstError(expanded) # "none" THEN NoFiles(FirstError(expanded))
    ELSE IF FirstError(results) # "none" THEN NoFiles(FirstError(results))
    ELSE [err |-> "none",
          files |-> [i \in 1..Len(SelectSeq(results, LAMBDA r : r.emit)) |->
                        SelectSeq(results, LAMBDA r : r.emit)[i].file]]

\* the loop over expandedReplacements
ProcessExpanded(expanded, scope, scopeFs) ==
    CollectEmitted(expanded,
                   [i \in 1..Len(expanded) |->
                       ProcessEntry(expanded[i].entry, scope, scopeFs)])

\* the files safeReplace collects before it validates them
SafeReplaceFiles(tk, scopeFs) ==
    IF ~IsArray(tk.safe_replace) \/ Len(tk.safe_replace.v) = 0
    THEN NoFiles("SafeReplace requires at least one replacement entry.")
    ELSE ProcessExpanded([i \in 1..Len(tk.safe_replace.v) |->
                             ExpandEntry(tk.safe_replace.v[i])],
                         tk.scope, scopeFs)

\* a return that shapes the collected files without validating them
ValidateCollectedUnchecked(collected, scope) ==
    IF collected.err # "none" \/ collected.files = <<>> THEN collected
    ELSE [err |-> "none",
          files |-> [i \in 1..Len(collected.files) |->
                        [path |-> collected.files[i].path.v,
                         contents |-> Utf8Decode(Base64Decode(
                                          collected.files[i].contents_base64.v)),
                         base64 |-> collected.files[i].contents_base64.v]]]

\* return files.length === 0 ? [] : validateModelFiles(files, ticket.scope)
ValidateCollected(collected, scope) ==
    IF collected.err # "none" \/ collected.files = <<>> THEN collected
    ELSE ValidateModelFiles(Arr(collected.files), scope)

SafeReplace(tk, scopeFs) == ValidateCollected(SafeReplaceFiles(tk, scopeFs), tk.scope)

(***************************************************************************)
(* runSanityRails.                                                         *)
(***************************************************************************)
\* a denylist that holds every control character, TAB, LF and CR too
InvalidCharAnyControl(u) ==
    /\ u \in DOMAIN CharCode
    /\ CharCode[u] \in (0..31) \cup {127, 65533}

\* SANITY_RAILS_INVALID_CHAR_REGEX: [\u0000-\u0008\u000B\u000C\u000E-\u001F\u007F\uFFFD]
InvalidChar(u) ==
    /\ u \in DOMAIN CharCode
    /\ CharCode[u] \in (0..8) \cup {11, 12} \cup (14..31) \cup {127, 65533}

ExportDefault == <<"export", " ", "default", " ">>

ROOT_LAYOUT_EXPORT_ANCHORS ==
    {ExportDefault \o <<"function", " ", "RootLayout", "(">>,
     ExportDefault \o <<"RootLayout">>}

NOW_PLAYING_EXPORT_ANCHORS ==
    {ExportDefault \o <<"function", " ", "NowPlaying">>,
     ExportDefault \o <<"NowPlaying">>,
     ExportDefault \o <<"memo", "(", "NowPlaying", ")">>}

LayoutPath == <<"src", "/", "app", "/", "layout.tsx">>

NowPlayingPath == <<"src", "/", "app", "/", "components", "/", "NowPlaying.tsx">>

\* the export assertions asking for every anchor instead of some anchor
RailsCheckEveryAnchor(file) ==
    LET text == file.contents
        pathName == file.path
        size == ByteLength(Utf8Encode(text))
    IN  IF size = 0 \/ size > SANITY_MAX_SIZE THEN "size"
        ELSE IF \E i \in 1..Len(text) : InvalidChar(text[i]) THEN "non-printable character"
        ELSE IF /\ EndsWith(pathName, LayoutPath)
                /\ ~\A anchor \in ROOT_LAYOUT_EXPORT_ANCHORS : Includes(text, anchor)
        THEN "RootLayout export"
        ELSE IF /\ EndsWith(pathName, NowPlayingPath)
                /\ ~\A anchor \in NOW_PLAYING_EXPORT_ANCHORS : Includes(text, anchor)
        THEN "NowPlaying export"
        ELSE "none"

\* the check of one file: the name of the check that fails, "none" when all pass
RailsCheck(file) ==
    LET text == file.contents
        pathName == file.path
        size == ByteLength(Utf8Encode(text))
    IN  IF size = 0 \/ size > SANITY_MAX_SIZE THEN "size"
        ELSE IF \E i \in 1..Len(text) : InvalidChar(text[i]) THEN "non-printable character"
        ELSE IF /\ EndsWith(pathName, LayoutPath)
                /\ ~\E anchor \in ROOT_LAYOUT_EXPORT_ANCHORS : Includes(text, anchor)
        THEN "RootLayout export"
        ELSE IF /\ EndsWith(pathName, NowPlayingPath)
                /\ ~\E anchor \in NOW_PLAYING_EXPORT_ANCHORS : Includes(text, anchor)
        THEN "NowPlaying export"
        ELSE "none"

\* runSanityRails: throws at the first file with a failing check
RunSanityRails(files) ==
    LET bad == {i \in 1..Len(files) : RailsCheck(files[i]) # "none"}
        first == CHOOSE i \in bad : \A j \in bad : i <= j
    IN  IF bad = {} THEN [err |-> "none", check |-> "none", index |-> 0]
        ELSE [err |-> "SanityRails failure", check |-> RailsCheck(files[first]),
              index |-> first]

(***************************************************************************)
(* Inputs of the parse specification: every string of at most MaxRawLen    *)
(* lexemes over RawChars as a scope entry, scopes of at most MaxScope      *)
(* entries, and the documents that fail before the scope is looked at.     *)
(***************************************************************************)
RawChars == {" ", ".", "/", "a"}

StringsUpTo(chars, n) == UNION {[1..k -> chars] : k \in 0..n}

RawEntries == {Str(s) : s \in StringsUpTo(RawChars, MaxRawLen)} \cup {Num}

GoodObj ==
    [title |-> Str(<<"t">>), why |-> Str(<<"w">>), scope |-> Arr(<<Str(<<"a">>)>>),
     dod |-> Arr(<<Str(<<"d">>)>>), guardrails |-> Undef, safe_replace |-> Undef]

HeadingDoc(obj) ==
    [exists |-> TRUE, front |-> Absent, fenced |-> Absent, fence |-> "none",
     heading |-> [kind |-> "object", obj |-> obj]]

ScopeValues ==
    {Undef, Str(<<"a">>)} \cup {Arr(items) : items \in StringsUpTo(RawEntries, MaxScope)}

ParseDocs ==
    {HeadingDoc([GoodObj EXCEPT !.scope = sv]) : sv \in ScopeValues}
    \cup {HeadingDoc([GoodObj EXCEPT !.title = Undef]),
          HeadingDoc([GoodObj EXCEPT !.why = Str(<<>>)]),
          HeadingDoc([GoodObj EXCEPT !.dod = Undef]),
          HeadingDoc([GoodObj EXCEPT !.guardrails = Str(<<"g">>)]),
          HeadingDoc([GoodObj EXCEPT !.guardrails = Arr(<<Str(<<"g">>)>>)]),
          [exists |-> TRUE, front |-> Absent, fenced |-> Absent, fence |-> "none",
           heading |-> Absent],
          [exists |-> TRUE, front |-> Absent,
           fenced |-> [kind |-> "empty", obj |-> NoObj], fence |-> "yaml",
           heading |-> [kind |-> "object", obj |-> GoodObj]],
          [exists |-> TRUE, front |-> [kind |-> "malformed", obj |-> NoObj],
           fenced |-> Absent, fence |-> "none",
           heading |-> [kind |-> "object", obj |-> GoodObj]],
          [exists |-> TRUE, front |-> Absent,
           fenced |-> [kind |-> "scalar", obj |-> NoObj], fence |-> "yaml",
           heading |-> Absent],
          [exists |-> TRUE, front |-> [kind |-> "object", obj |-> GoodObj],
           fenced |-> [kind |-> "malformed", obj |-> NoObj], fence |-> "yaml",
           heading |-> Absent]}

\* a block of a form: absent, empty, malformed YAML, YAML of a scalar, or a
\* valid ticket whose title names the form
BlocksOf(form) ==
    {Absent, [kind |-> "empty", obj |-> NoObj], [kind |-> "malformed", obj |-> NoObj],
     [kind |-> "scalar", obj |-> NoObj],
     [kind |-> "object", obj |-> [GoodObj EXCEPT !.title = Str(<<form>>)]]}

\* documents holding a block of several forms at once; the front-matter
\* pattern needs one character at least, so a front block is never empty;
\* the fence opens with yaml, with no tag, or with another tag
PrecedenceDocs ==
    {[exists |-> TRUE, front |-> fr, fenced |-> fe, fence |-> tag, heading |-> h] :
        fr \in BlocksOf("front") \ {[kind |-> "empty", obj |-> NoObj]},
        fe \in BlocksOf("fenced") \ {Absent},
        tag \in {"yaml", "untagged", "json"},
        h \in BlocksOf("heading")}

(***************************************************************************)
(* fetchScopeFiles.  repo[p] is the response of repos.getContent for path  *)
(* p: a status and, for 200, a directory listing or a file.                *)
(***************************************************************************)
Response(status, kind, encoding, content) ==
    [status |-> status, kind |-> kind, encoding |-> encoding, content |-> content]

NoScopeFile == [path |-> <<>>, content |-> <<>>, sha |-> <<>>]

\* one iteration of the loop over scope
FetchOne(scopePath, response) ==
    IF EndsWith(scopePath, <<"/">>)
    THEN [err |-> "Scope path is a directory, expected file", file |-> NoScopeFile]
    ELSE IF response.status = 404
    THEN [err |-> "Scope path not found in base branch", file |-> NoScopeFile]
    ELSE IF response.status # 200
    THEN [err |-> "GitHub request failed", file |-> NoScopeFile]
    ELSE IF response.kind = "dir"
    THEN [err |-> "Scope path is a directory, expected file", file |-> NoScopeFile]
    ELSE IF response.encoding # "base64"
    THEN [err |-> "Unexpected encoding", file |-> NoScopeFile]
    ELSE [err |-> "none",
          file |-> [path |-> scopePath,
                    content |-> Utf8Decode(Base64Decode(response.content)),
                    sha |-> <<"sha">> \o scopePath]]

NotFound == Response(404, "none", "none", <<>>)

\* the response for a path the base branch does not hold is 404
RepoAt(r, p) == IF p \in DOMAIN r THEN r[p] ELSE NotFound

FetchScopeFilesResult(scope, r) ==
    LET fetched == [i \in 1..Len(scope) |-> FetchOne(scope[i], RepoAt(r, scope[i]))]
    IN  IF FirstError(fetched) # "none" THEN NoFiles(FirstError(fetched))
        ELSE [err |-> "none", files |-> [i \in 1..Len(fetched) |-> fetched[i].file]]

(***************************************************************************)
(* Environment.                                                            *)
(***************************************************************************)
\* String.prototype.toLowerCase on the words the environment holds
LowerCase(u) ==
    CASE u = "FALSE" -> "false"
      [] u = "False" -> "false"
      [] u = "TRUE" -> "true"
      [] u = "OpenAI" -> "openai"
      [] u = "Anthropic" -> "anthropic"
      [] OTHER -> u

ToLowerCase(s) == [i \in 1..Len(s) |-> LowerCase(s[i])]

\* process.env[name] || fallback
EnvOr(value, fallback) == IF Truthy(value) THEN value.v ELSE fallback

\* Sanity Rails switched off whatever the environment holds
VerifyStrictNever(e) == FALSE

\* (process.env.VERIFY_STRICT || "true").toLowerCase() !== "false"
VerifyStrict(e) == ToLowerCase(EnvOr(e.VERIFY_STRICT, <<"true">>)) # <<"false">>

\* (process.env.USE_SCRIPTED_MERGE || "").toLowerCase() === "true"
UseScriptedMerge(e) == ToLowerCase(EnvOr(e.USE_SCRIPTED_MERGE, <<>>)) = <<"true">>

\* requireEnv("GITHUB_OWNER") and requireEnv("GITHUB_TOKEN") find a value
GitHubEnvOk(e) == Truthy(e.GITHUB_OWNER) /\ Truthy(e.GITHUB_TOKEN)

(***************************************************************************)
(* callLLM: the provider switch, the request and the JSON of the reply.    *)
(***************************************************************************)
CallLLMResult(e, rp, scope) ==
    LET provider == ToLowerCase(EnvOr(e.LLM_PROVIDER, <<"openai">>))
    IN  IF provider \notin {<<"anthropic">>, <<"openai">>}
        THEN NoFiles("Unsupported LLM provider")
        ELSE IF ~Truthy(e.LLM_API_KEY) THEN NoFiles("Missing required env var")
        ELSE IF rp.kind = "request failed" THEN NoFiles("LLM request failed")
        ELSE IF rp.kind # "json" THEN NoFiles("Model did not return valid JSON.")
        ELSE ValidateModelFiles(rp.files, scope)

\* the branch of run() that picks the edit source
UsesSafeReplace(tk) == IsArray(tk.safe_replace) /\ Len(tk.safe_replace.v) > 0

(***************************************************************************)
(* run(): one action per stage.                                            *)
(***************************************************************************)
\* a rejection that leaves process.exitCode alone
ThrowKeepingExitCode(msg) ==
    /\ pc' = "failed"
    /\ error' = msg
    /\ UNCHANGED exitCode

\* run() rejects: main's catch prints the message and sets process.exitCode = 1
Throw(msg) ==
    /\ pc' = "failed"
    /\ error' = msg
    /\ exitCode' = 1

Inputs == <<env, doc, repo, reply>>

\* 1/7 read ticket, and the GitHub settings
ReadTicket ==
    /\ pc = "parse"
    /\ log' = Append(log, "1/7 read ticket")
    /\ \E r \in {ParseTicket(doc)} :
           IF ~doc.exists
           THEN Throw("Ticket file not found") /\ UNCHANGED ticket
           ELSE IF r.err # "none"
           THEN Throw(r.err) /\ UNCHANGED ticket
           ELSE IF ~GitHubEnvOk(env)
           THEN Throw("Missing required env var") /\ ticket' = r.ticket
           ELSE /\ ticket' = r.ticket
                /\ pc' = "fetch"
                /\ UNCHANGED <<error, exitCode>>
    /\ UNCHANGED <<Inputs, shas, merge, presetRules>>
    /\ UNCHANGED <<scopeFiles, modelFiles, rails, branch, committed, pr>>

\* 2/7 fetch scope files
FetchScopeFiles ==
    /\ pc = "fetch"
    /\ log' = Append(log, "2/7 fetch scope files")
    /\ \E r \in {FetchScopeFilesResult(ticket.scope, repo)} :
           IF r.err # "none"
           THEN Throw(r.err) /\ UNCHANGED scopeFiles
           ELSE /\ scopeFiles' = r.files
                /\ pc' = "edit"
                /\ UNCHANGED <<error, exitCode>>
    /\ UNCHANGED <<Inputs, shas, merge, presetRules>>
    /\ UNCHANGED <<ticket, modelFiles, rails, branch, committed, pr>>

\* the stage going on to the rails with no file to commit
SafeReplaceStageNoEarlyExit ==
    /\ pc = "edit"
    /\ UsesSafeReplace(ticket)
    /\ \E r \in {SafeReplace(ticket, scopeFiles)} :
           IF r.err # "none"
           THEN /\ Throw(r.err)
                /\ log' = Append(log, "3/7 safe replace")
                /\ UNCHANGED modelFiles
           ELSE /\ pc' = "rails"
                /\ log' = Append(log, "3/7 safe replace")
                /\ modelFiles' = r.files
                /\ UNCHANGED <<error, exitCode>>
    /\ UNCHANGED <<Inputs, shas, merge, presetRules>>
    /\ UNCHANGED <<ticket, scopeFiles, rails, branch, committed, pr>>

\* 3/7 safe replace
SafeReplaceStage ==
    /\ pc = "edit"
    /\ UsesSafeReplace(ticket)
    /\ \E r \in {SafeReplace(ticket, scopeFiles)} :
           IF r.err # "none"
           THEN /\ Throw(r.err)
                /\ log' = Append(log, "3/7 safe replace")
                /\ UNCHANGED modelFiles
           ELSE IF r.files = <<>>
           THEN /\ pc' = "done"
                /\ log' = log \o <<"3/7 safe replace",
                                   "SafeReplace: no files modified; exiting early.">>
                /\ modelFiles' = r.files
                /\ UNCHANGED <<error, exitCode>>
           ELSE /\ pc' = "rails"
                /\ log' = Append(log, "3/7 safe replace")
                /\ modelFiles' = r.files
                /\ UNCHANGED <<error, exitCode>>
    /\ UNCHANGED <<Inputs, shas, merge, presetRules>>
    /\ UNCHANGED <<ticket, scopeFiles, rails, branch, committed, pr>>

\* 3/7 call LLM
CallLLM ==
    /\ pc = "edit"
    /\ ~UsesSafeReplace(ticket)
    /\ log' = Append(log, "3/7 call LLM")
    /\ \E r \in {CallLLMResult(env, reply, ticket.scope)} :
           IF r.err # "none"
           THEN Throw(r.err) /\ UNCHANGED modelFiles
           ELSE /\ modelFiles' = r.files
                /\ pc' = "rails"
                /\ UNCHANGED <<error, exitCode>>
    /\ UNCHANGED <<Inputs, shas, merge, presetRules>>
    /\ UNCHANGED <<ticket, scopeFiles, rails, branch, committed, pr>>

\* 4/7 run sanity rails
SanityRails ==
    /\ pc = "rails"
    /\ IF VerifyStrict(env)
       THEN /\ log' = Append(log, "4/7 run sanity rails")
            /\ \E r \in {RunSanityRails(modelFiles)} :
                   IF r.err # "none"
                   THEN /\ Throw(r.err)
                        /\ rails' = [ran |-> TRUE, files |-> modelFiles,
                                     path |-> modelFiles[r.index].path,
                                     check |-> r.check]
                   ELSE /\ rails' = [ran |-> TRUE, files |-> modelFiles,
                                     path |-> <<>>, check |-> "none"]
                        /\ pc' = "branch"
                        /\ UNCHANGED <<error, exitCode>>
       ELSE /\ log' = Append(log, "4/7 run sanity rails (skipped, VERIFY_STRICT=false)")
            /\ pc' = "branch"
            /\ UNCHANGED <<rails, error, exitCode>>
    /\ UNCHANGED <<Inputs, shas, merge, presetRules>>
    /\ UNCHANGED <<ticket, scopeFiles, modelFiles, branch, committed, pr>>

\* a branch stage that does not wait for the rails stage
EnsureBranchBeforeRails ==
    /\ pc \in {"rails", "branch"}
    /\ log' = Append(log, "5/7 create branch")
    /\ \E outcome \in {"created", "Branch already exists", "GitHub request failed"} :
           IF outcome = "created"
           THEN /\ branch' = TRUE
                /\ pc' = "commit"
                /\ UNCHANGED <<error, exitCode>>
           ELSE Throw(outcome) /\ UNCHANGED branch
    /\ UNCHANGED <<Inputs, shas, merge, presetRules>>
    /\ UNCHANGED <<ticket, scopeFiles, modelFiles, rails, committed, pr>>

\* 5/7 create branch: the name may be taken, a request may fail
EnsureBranch ==
    /\ pc = "branch"
    /\ log' = Append(log, "5/7 create branch")
    /\ \E outcome \in {"created", "Branch already exists", "GitHub request failed"} :
           IF outcome = "created"
           THEN /\ branch' = TRUE
                /\ pc' = "commit"
                /\ UNCHANGED <<error, exitCode>>
           ELSE Throw(outcome) /\ UNCHANGED branch
    /\ UNCHANGED <<Inputs, shas, merge, presetRules>>
    /\ UNCHANGED <<ticket, scopeFiles, modelFiles, rails, committed, pr>>

\* no sha: what shaLookup.get returns for a path that was not fetched
NoSha == <<"undefined">>

\* new Map(scopeFiles.map(...)).get(p): the sha of the last fetched file of path p
ShaLookup(scopeFs, p) ==
    IF \E i \in 1..Len(scopeFs) : scopeFs[i].path = p
    THEN scopeFs[CHOOSE i \in 1..Len(scopeFs) :
                     /\ scopeFs[i].path = p
                     /\ \A j \in 1..Len(scopeFs) : scopeFs[j].path = p => j <= i].sha
    ELSE NoSha

\* 6/7 commit: one createOrUpdateFileContents request of the loop
CommitFile ==
    /\ pc = "commit"
    /\ Len(committed) < Len(modelFiles)
    /\ log' = IF committed = <<>> THEN Append(log, "6/7 commit") ELSE log
    /\ shas' = Append(shas, ShaLookup(scopeFiles, modelFiles[Len(committed) + 1].path))
    /\ \E ok \in BOOLEAN :
           IF ok
           THEN /\ committed' = Append(committed, modelFiles[Len(committed) + 1])
                /\ pc' = IF Len(committed) + 1 = Len(modelFiles) THEN "pr" ELSE "commit"
                /\ UNCHANGED <<error, exitCode>>
           ELSE Throw("GitHub request failed") /\ UNCHANGED committed
    /\ UNCHANGED <<Inputs, merge, presetRules>>
    /\ UNCHANGED <<ticket, scopeFiles, modelFiles, rails, branch, pr>>

\* 7/7 open PR + arm auto-merge: only pulls.create can fail the run; the
\* mutation that arms auto-merge may fail, and run() then picks the fallback
OpenPr ==
    /\ pc = "pr"
    /\ \E ok \in BOOLEAN, armed \in BOOLEAN :
           IF ok
           THEN /\ pr' = TRUE
                /\ merge' = [merge EXCEPT !.autoMergeEnabled = armed, !.armed = TRUE]
                /\ IF UseScriptedMerge(env) \/ ~armed
                   THEN /\ pc' = "wait"
                        /\ log' = log \o <<"7/7 open PR + arm auto-merge",
                                           "Scripted merge fallback: waiting for required check">>
                   ELSE /\ pc' = "done"
                        /\ log' = Append(log, "7/7 open PR + arm auto-merge")
                /\ UNCHANGED <<error, exitCode>>
           ELSE /\ Throw("GitHub request failed")
                /\ log' = Append(log, "7/7 open PR + arm auto-merge")
                /\ UNCHANGED <<pr, merge>>
    /\ UNCHANGED <<Inputs, shas, presetRules>>
    /\ UNCHANGED <<ticket, scopeFiles, modelFiles, rails, branch, committed>>

\* a check run of the head commit
CheckRun(name, status, conclusion) ==
    [name |-> name, status |-> status, conclusion |-> conclusion]

NoCheck == CheckRun(Undef, "none", Undef)

\* a find whose callback tests run.name alone
RECURSIVE FindCheckAnyName(_, _)
FindCheckAnyName(checkRuns, nameSubstr) ==
    IF checkRuns = <<>> THEN NoCheck
    ELSE IF Truthy(Head(checkRuns).name) THEN Head(checkRuns)
    ELSE FindCheckAnyName(Tail(checkRuns), nameSubstr)

\* checkRuns.find((run) => run.name && run.name.includes(nameSubstr))
RECURSIVE FindCheck(_, _)
FindCheck(checkRuns, nameSubstr) ==
    IF checkRuns = <<>> THEN NoCheck
    ELSE IF Truthy(Head(checkRuns).name) /\ Includes(Head(checkRuns).name.v, nameSubstr)
    THEN Head(checkRuns)
    ELSE FindCheck(Tail(checkRuns), nameSubstr)

CheckRuns ==
    {CheckRun(Str(<<"Vercel">>), "completed", Str(<<"success">>)),
     CheckRun(Str(<<"Vercel", " ", "Preview">>), "completed", Str(<<"failure">>)),
     CheckRun(Str(<<"Vercel">>), "completed", Undef),
     CheckRun(Str(<<"Vercel">>), "in_progress", Undef),
     CheckRun(Str(<<"vercel">>), "completed", Str(<<"success">>)),
     CheckRun(Str(<<"CI">>), "completed", Str(<<"success">>)),
     CheckRun(Undef, "completed", Str(<<"success">>))}

\* response.data.check_runs of one checks.listForRef request
CheckResponses == StringsUpTo(CheckRuns, MaxCheckRuns)

\* one turn of the loop of waitForCheck, and what run() makes of its result:
\* the deadline has passed, or checks.listForRef fails, or it answers
PollCheck ==
    /\ pc = "wait"
    /\ \/ /\ merge.polls > 0
          /\ merge' = [merge EXCEPT !.conclusion = <<"timeout">>]
          /\ pc' = "comment"
       \/ /\ merge.polls < MaxPolls
          /\ merge' = [merge EXCEPT !.polls = @ + 1, !.warned = TRUE]
          /\ pc' = "done"
       \/ /\ merge.polls < MaxPolls
          /\ \E checkRuns \in CheckResponses :
                 \E match \in {FindCheck(checkRuns, <<"Vercel">>)} :
                     IF match # NoCheck /\ match.status = "completed"
                     THEN /\ merge' = [merge EXCEPT !.polls = @ + 1,
                                                    !.check = match,
                                                    !.conclusion = EnvOr(match.conclusion,
                                                                         <<"timeout">>)]
                          /\ pc' = IF EnvOr(match.conclusion, <<"timeout">>) = <<"success">>
                                   THEN "merge" ELSE "comment"
                     ELSE /\ merge' = [merge EXCEPT !.polls = @ + 1]
                          /\ pc' = "wait"
    /\ UNCHANGED <<Inputs, shas, presetRules, error, exitCode, log>>
    /\ UNCHANGED <<ticket, scopeFiles, modelFiles, rails, branch, committed, pr>>

\* the check succeeded: mergePr; its failure is caught and logged
MergePr ==
    /\ pc = "merge"
    /\ pc' = "done"
    /\ \E ok \in BOOLEAN :
           IF ok
           THEN /\ merge' = [merge EXCEPT !.merged = TRUE]
                /\ log' = log \o <<"Scripted merge fallback: check succeeded, merging PR",
                                   "Scripted merge fallback: PR merged via scripted flow.">>
           ELSE /\ merge' = [merge EXCEPT !.warned = TRUE]
                /\ log' = Append(log, "Scripted merge fallback: check succeeded, merging PR")
    /\ UNCHANGED <<Inputs, shas, presetRules, error, exitCode>>
    /\ UNCHANGED <<ticket, scopeFiles, modelFiles, rails, branch, committed, pr>>

\* any other conclusion: commentPr; its failure is caught and logged
CommentPr ==
    /\ pc = "comment"
    /\ pc' = "done"
    /\ log' = Append(log, "Scripted merge fallback: check concluded, commenting.")
    /\ \E ok \in BOOLEAN :
           IF ok
           THEN merge' = [merge EXCEPT !.commented = TRUE,
                                       !.comment = <<"Shipyard: required check concluded: ">>
                                                   \o merge.conclusion
                                                   \o <<". Not merging.">>]
           ELSE merge' = [merge EXCEPT !.warned = TRUE]
    /\ UNCHANGED <<Inputs, shas, presetRules, error, exitCode>>
    /\ UNCHANGED <<ticket, scopeFiles, modelFiles, rails, branch, committed, pr>>


\* runSanityRails has not been called
NoRails == [ran |-> FALSE, files |-> <<>>, path |-> <<>>, check |-> "none"]

\* nothing armed, no poll, no merge, no comment
NoMerge ==
    [armed |-> FALSE, autoMergeEnabled |-> FALSE, polls |-> 0, check |-> NoCheck,
     conclusion |-> <<>>, merged |-> FALSE, commented |-> FALSE, comment |-> <<>>,
     warned |-> FALSE]

\* state of a run before its first stage
Fresh ==
    /\ ticket = NoTicket
    /\ scopeFiles = <<>>
    /\ modelFiles = <<>>
    /\ error = "none"
    /\ log = <<>>
    /\ rails = NoRails
    /\ branch = FALSE
    /\ committed = <<>>
    /\ pr = FALSE
    /\ exitCode = 0
    /\ shas = <<>>
    /\ merge = NoMerge
    /\ presetRules = <<>>

(***************************************************************************)
(* Inputs of a run: environments, ticket documents, base branches and      *)
(* replies of the generative source.                                       *)
(***************************************************************************)
GoodEnv ==
    [VERIFY_STRICT |-> Undef, GITHUB_OWNER |-> Str(<<"owner">>),
     GITHUB_TOKEN |-> Str(<<"token">>), LLM_PROVIDER |-> Undef,
     LLM_API_KEY |-> Str(<<"key">>), USE_SCRIPTED_MERGE |-> Undef]

StrictValues ==
    {Undef, Str(<<>>), Str(<<"true">>), Str(<<"false">>), Str(<<"FALSE">>),
     Str(<<"False">>), Str(<<"0">>), Str(<<"no">>)}

RunEnvs ==
    {[GoodEnv EXCEPT !.VERIFY_STRICT = sv] : sv \in StrictValues}
    \cup {[GoodEnv EXCEPT !.GITHUB_OWNER = Undef],
          [GoodEnv EXCEPT !.GITHUB_TOKEN = Str(<<>>)],
          [GoodEnv EXCEPT !.LLM_PROVIDER = Str(<<"Anthropic">>)],
          [GoodEnv EXCEPT !.LLM_PROVIDER = Str(<<"azure">>)],
          [GoodEnv EXCEPT !.LLM_API_KEY = Undef],
          [GoodEnv EXCEPT !.USE_SCRIPTED_MERGE = Str(<<"true">>)],
          [GoodEnv EXCEPT !.USE_SCRIPTED_MERGE = Str(<<"TRUE">>)],
          [GoodEnv EXCEPT !.USE_SCRIPTED_MERGE = Str(<<"false">>)]}

\* base64 text carrying the UTF-8 bytes of a text
B64(text) == Base64Encode(Utf8Encode(text))

FileResponse(text) == Response(200, "file", "base64", B64(text))

PinkText == <<"text", "-", "pink", "-", "500">>

RepoPaths == {<<"a">>, LayoutPath}

RunRepos ==
    [RepoPaths -> {NotFound, Response(200, "dir", "none", <<>>),
                   Response(500, "none", "none", <<>>),
                   Response(200, "file", "utf-8", <<>>),
                   FileResponse(PinkText), FileResponse(<<"x">>)}]

ModelFile(p, b) == [path |-> p, contents_base64 |-> b]

JsonReply(files) == [kind |-> "json", files |-> files]

LayoutText == <<"x", "LF">> \o ExportDefault \o <<"RootLayout">>

RunReplies ==
    {[kind |-> "request failed", files |-> Undef],
     [kind |-> "not json", files |-> Undef],
     JsonReply(Undef),
     JsonReply(Arr(<<ModelFile(Str(<<"a">>), Str(B64(<<"x">>)))>>)),
     JsonReply(Arr(<<ModelFile(Str(<<"a">>), Str(B64(<<"NUL">>)))>>)),
     JsonReply(Arr(<<ModelFile(Str(<<"b">>), Str(B64(<<"x">>)))>>)),
     JsonReply(Arr(<<ModelFile(Str(<<"a", "/", "b">>), Str(B64(<<"x">>)))>>)),
     JsonReply(Arr(<<ModelFile(Str(LayoutPath), Str(B64(LayoutText))),
                     ModelFile(Str(<<"a">>), Str(B64(<<"x">>)))>>)),
     JsonReply(Arr(<<ModelFile(Str(<<"a">>), Str(B64(<<"x">>))),
                     ModelFile(Str(LayoutPath), Str(B64(<<"x">>)))>>))}

Directive(p, rules) ==
    [t |-> "object", path |-> p, replacements |-> rules, color_preset |-> Undef]

PinkRule == Rule(Str(<<"pink">>), Undef, Str(<<"purple">>))

RunScopes ==
    {Arr(<<Str(<<"a">>)>>), Arr(<<Str(<<"a">>), Str(LayoutPath)>>),
     Arr(<<Str(<<"a", "/">>)>>), Arr(<<Str(<<".", ".", "/", "a">>)>>)}

RunDirectives ==
    {Undef, Arr(<<>>),
     Arr(<<Directive(Str(<<"a">>), Arr(<<PinkRule>>))>>),
     Arr(<<Directive(Str(<<"b">>), Arr(<<PinkRule>>))>>),
     Arr(<<Directive(Str(<<"a">>),
                     Arr(<<Rule(Str(<<"pink">>), Undef, Str(<<"pink">>))>>))>>),
     Arr(<<Directive(Str(<<"a">>), Arr(<<PinkRule>>)),
           Directive(Str(LayoutPath), Arr(<<PinkRule>>))>>)}

RunDocs ==
    {HeadingDoc([GoodObj EXCEPT !.scope = sc, !.safe_replace = sr]) :
        sc \in RunScopes, sr \in RunDirectives}
    \cup {HeadingDoc([GoodObj EXCEPT !.title = Undef]),
          [HeadingDoc(GoodObj) EXCEPT !.exists = FALSE]}

GoodRepo == [p \in RepoPaths |-> FileResponse(PinkText)]

CoreDocs ==
    {HeadingDoc([GoodObj EXCEPT !.scope = Arr(<<Str(<<"a">>), Str(LayoutPath)>>),
                                !.safe_replace = sr]) :
        sr \in {Undef, Arr(<<Directive(Str(<<"a">>), Arr(<<PinkRule>>))>>)}}

\* every environment and reply on the core documents, and every document
\* and base branch under the plain environment
RunInputs ==
    {[env |-> e, doc |-> d, repo |-> GoodRepo, reply |-> rp] :
        e \in RunEnvs, d \in CoreDocs, rp \in RunReplies}
    \cup {[env |-> GoodEnv, doc |-> d, repo |-> r, reply |-> rp] :
            d \in RunDocs, r \in RunRepos,
            rp \in {JsonReply(Arr(<<ModelFile(Str(<<"a">>), Str(B64(<<"x">>)))>>))}}

Init ==
    /\ pc = "parse"
    /\ \E in \in RunInputs :
           /\ env = in.env
           /\ doc = in.doc
           /\ repo = in.repo
           /\ reply = in.reply
    /\ Fresh

Next ==
    \/ ReadTicket
    \/ FetchScopeFiles
    \/ SafeReplaceStage
    \/ CallLLM
    \/ SanityRails
    \/ EnsureBranch
    \/ CommitFile
    \/ OpenPr
    \/ PollCheck
    \/ MergePr
    \/ CommentPr

Spec == Init /\ [][Next]_vars

\* parseTicket alone, on every document of ParseDocs
InitParse ==
    /\ pc = "parse"
    /\ env = GoodEnv
    /\ doc \in ParseDocs \cup PrecedenceDocs
    /\ repo \in {[p \in RepoPaths |-> NotFound]}
    /\ reply = JsonReply(Undef)
    /\ Fresh

SpecParse == InitParse /\ [][ReadTicket]_vars

(***************************************************************************)
(* validateModelFiles and safeReplace called on their own, as the module   *)
(* exports them: scopes are the ones parseTicket returns, paths are every  *)
(* string of at most MaxRawLen lexemes over PathChars.                     *)
(***************************************************************************)
CallValidateModelFiles ==
    /\ pc = "validateModelFiles"
    /\ \E r \in {ValidateModelFiles(reply.files, ticket.scope)} :
           /\ modelFiles' = r.files
           /\ error' = r.err
           /\ pc' = IF r.err = "none" THEN "returned" ELSE "threw"
    /\ UNCHANGED <<Inputs, shas, merge, presetRules>>
    /\ UNCHANGED <<ticket, scopeFiles, log, rails, branch, committed, pr, exitCode>>

CallSafeReplace ==
    /\ pc = "safeReplace"
    /\ \E r \in {SafeReplace(ticket, scopeFiles)} :
           /\ modelFiles' = r.files
           /\ error' = r.err
           /\ pc' = IF r.err = "none" THEN "returned" ELSE "threw"
    /\ UNCHANGED <<Inputs, shas, merge, presetRules>>
    /\ UNCHANGED <<ticket, scopeFiles, log, rails, branch, committed, pr, exitCode>>

PathChars == {".", "/", "a", "b"}

CandidatePaths == StringsUpTo(PathChars, MaxRawLen)

\* the scopes parseTicket returns for one raw entry, and three of two entries
ParsedScopes ==
    {<<NormalizeScopeEntry(e).path>> :
        e \in {x \in RawEntries : NormalizeScopeEntry(x).err = "none"}}
    \cup {<<<<"a">>, <<"b", "/">>>>, <<<<"a", "/">>, <<"a", "/", "b">>>>,
          <<<<"b">>, <<"a">>>>}

GoodContents == Str(B64(<<"x">>))

\* base64 texts: well formed, with characters outside the alphabet, with a
\* padding character in the middle, empty, and no string at all
Base64Inputs ==
    {GoodContents,
     Str(<<<<"b64", <<"utf8", "x">>>>, <<"!", <<"none", "">>>>,
           <<"b64", <<"utf8", "y">>>>>>),
     Str(<<<<"!", <<"none", "">>>>, <<"!", <<"none", "">>>>>>),
     Str(<<<<"b64", <<"utf8", "x">>>>, <<"=", <<"none", "">>>>,
           <<"b64", <<"utf8", "y">>>>>>),
     Str(Base64Encode(<<<<"byte", "0xFF">>>>)),
     Str(<<>>), Undef}

\* the entries of the longer file sequences
SmallEntries ==
    {ModelFile(Str(<<"a">>), GoodContents),
     ModelFile(Str(<<".", "/", "b", "/", "c">>), Str(B64(<<"y">>))),
     ModelFile(Str(<<"c">>), GoodContents)}

FileSequences ==
    {Undef}
    \cup {Arr(<<ModelFile(Str(p), GoodContents)>>) : p \in CandidatePaths}
    \cup {Arr(<<ModelFile(Str(<<"a">>), c)>>) : c \in Base64Inputs}
    \cup {Arr(<<ModelFile(Undef, GoodContents)>>)}
    \cup {Arr(items) : items \in StringsUpTo(SmallEntries, MAX_FILES + MaxExtra)}

TicketOf(scope, directives) ==
    [title |-> <<"t">>, scope |-> scope, safe_replace |-> directives]

\* one fetched file for each scope path
FetchedAll(scope) ==
    [i \in 1..Len(scope) |-> [path |-> scope[i], content |-> PinkText, sha |-> <<"sha">>]]

\* one file of every candidate path, against every parsed scope
ValidatePathInputs ==
    {[pc |-> "validateModelFiles", ticket |-> TicketOf(sc, Undef),
      reply |-> JsonReply(fs), scopeFiles |-> <<>>] :
        sc \in ParsedScopes, fs \in {f \in FileSequences : f.t = "undefined" \/ Len(f.v) <= 1}}

\* every file sequence against one scope
ValidateSequenceInputs ==
    {[pc |-> "validateModelFiles", ticket |-> TicketOf(sc, Undef),
      reply |-> JsonReply(fs), scopeFiles |-> <<>>] :
        sc \in {<<<<"a">>, <<"b", "/">>>>}, fs \in FileSequences}

\* one directive of every candidate path, against every parsed scope
SafeReplaceInputs ==
    {[pc |-> "safeReplace",
      ticket |-> TicketOf(sc, Arr(<<Directive(Str(p), Arr(<<PinkRule>>))>>)),
      reply |-> JsonReply(Undef), scopeFiles |-> FetchedAll(sc)] :
        sc \in ParsedScopes, p \in CandidatePaths}

\* the state before the call in
BeforeCall(in) ==
    /\ pc = in.pc
    /\ ticket = in.ticket
    /\ reply = in.reply
    /\ scopeFiles = in.scopeFiles
    /\ env = GoodEnv
    /\ doc = HeadingDoc(GoodObj)
    /\ repo = GoodRepo
    /\ modelFiles = <<>>
    /\ error = "none"
    /\ log = <<>>
    /\ rails = NoRails
    /\ branch = FALSE
    /\ committed = <<>>
    /\ pr = FALSE
    /\ exitCode = 0
    /\ shas = <<>>
    /\ merge = NoMerge
    /\ presetRules = <<>>

InitValidate ==
    \/ \E in \in ValidatePathInputs : BeforeCall(in)
    \/ \E in \in ValidateSequenceInputs : BeforeCall(in)
    \/ \E in \in SafeReplaceInputs : BeforeCall(in)

NextValidate == CallValidateModelFiles \/ CallSafeReplace

SpecValidate == InitValidate /\ [][NextValidate]_vars

(***************************************************************************)
(* Runs from the edit stage on, over candidate contents concatenated from  *)
(* at most MaxChunks chunks (letters, pads that bring a content to the     *)
(* size bounds, control characters, pieces of the export anchors) and a    *)
(* few contents more.                                                      *)
(***************************************************************************)
PkgLayoutPath == <<"pkg", "/">> \o LayoutPath

RailsPaths == {LayoutPath, NowPlayingPath, PkgLayoutPath, <<"a">>}

Chunks ==
    {<<"x">>, <<"xx">>, <<"x*199999">>, <<"x*4800">>, <<"NUL">>, <<"TAB">>,
     ExportDefault, <<"RootLayout">>, <<"NowPlaying">>,
     <<"memo", "(", "NowPlaying", ")">>}

\* contents with the replacement character and with the function anchors
ExtraTexts ==
    {<<"U+FFFD">>, <<"x", "U+FFFD">>,
     <<"function", " ", "RootLayout", "(">>,
     <<"x", "LF">> \o ExportDefault \o <<"function", " ", "RootLayout", "(">>,
     ExportDefault \o <<"function", " ", "RootLayout">>,
     ExportDefault \o <<"function", " ", "NowPlaying">> \o <<"(", ")">>,
     <<"default", " ">> \o <<"function", " ", "NowPlaying">>}

RECURSIVE Concat(_)
Concat(chunks) == IF chunks = <<>> THEN <<>> ELSE Head(chunks) \o Concat(Tail(chunks))

CandidateTexts == {Concat(cs) : cs \in StringsUpTo(Chunks, MaxChunks)} \cup ExtraTexts

RailsDoc ==
    HeadingDoc([GoodObj EXCEPT
        !.scope = Arr(<<Str(LayoutPath), Str(NowPlayingPath), Str(PkgLayoutPath),
                        Str(<<"a">>)>>)])

RailsRepo == [p \in RailsPaths |-> FileResponse(<<"x">>)]

GoodLayout == ModelFile(Str(LayoutPath), Str(B64(LayoutText)))

RailsReplies ==
    {JsonReply(Arr(<<ModelFile(Str(p), Str(B64(text)))>>)) :
        p \in RailsPaths, text \in CandidateTexts}
    \cup {JsonReply(Arr(<<GoodLayout, ModelFile(Str(LayoutPath), Str(B64(<<"x">>)))>>)),
          JsonReply(Arr(<<ModelFile(Str(<<"a">>), Str(B64(<<"x">>))),
                          ModelFile(Str(NowPlayingPath), Str(B64(<<"x">>)))>>)),
          JsonReply(Arr(<<ModelFile(Str(<<"a">>), Str(B64(<<"x">>))), GoodLayout>>)),
          JsonReply(Arr(<<ModelFile(Str(<<"a">>), Str(B64(<<"x">>))),
                          ModelFile(Str(<<"a">>), Str(B64(<<"NUL">>)))>>))}

InitRails ==
    /\ pc = "edit"
    /\ env = GoodEnv
    /\ doc = RailsDoc
    /\ repo = RailsRepo
    /\ reply \in RailsReplies
    /\ ticket = ParseTicket(RailsDoc).ticket
    /\ scopeFiles = FetchScopeFilesResult(ParseTicket(RailsDoc).ticket.scope, RailsRepo).files
    /\ modelFiles = <<>>
    /\ error = "none"
    /\ log = <<"1/7 read ticket", "2/7 fetch scope files">>
    /\ rails = NoRails
    /\ branch = FALSE
    /\ committed = <<>>
    /\ pr = FALSE
    /\ exitCode = 0
    /\ shas = <<>>
    /\ merge = NoMerge
    /\ presetRules = <<>>

NextRails == CallLLM \/ SanityRails

SpecRails == InitRails /\ [][NextRails]_vars

(***************************************************************************)
(* safeReplace called on its own over rules: one directive of up to        *)
(* MaxRules literal rules, one directive of one find_any rule of up to     *)
(* MaxTokens tokens, and lists of up to MaxDirectives directives, well     *)
(* formed or not; the fetched content of path a is every string of at most *)
(* MaxContentLen lexemes over ReplaceChars.                                *)
(***************************************************************************)
ReplaceChars == {"a", "b"}

ReplaceContents == StringsUpTo(ReplaceChars, MaxContentLen)

FindTokens == {<<"a">>, <<"b">>, <<"a", "b">>}

\* find strings that are empty once trimmed
BlankTokens == {<<>>, <<" ">>}

ReplaceValues == {<<>>, <<"b">>, <<"c">>}

LiteralRules == {Rule(Str(f), Undef, Str(r)) : f \in FindTokens, r \in ReplaceValues}

\* tokens of a find_any list: plain, padded with a space, blank, a number
AnyTokens ==
    {Str(<<"a">>), Str(<<"b">>), Str(<<"a", "b">>), Str(<<" ", "a">>), Str(<<" ">>)}

AnyRules ==
    {Rule(Undef, Arr(tokens), Str(r)) :
        tokens \in StringsUpTo(AnyTokens, MaxTokens), r \in ReplaceValues}

ReplaceScope == <<<<"a">>, <<"b">>>>

\* the fetched files of ReplaceScope, path a holding content
FetchedWith(content) ==
    <<[path |-> <<"a">>, content |-> content, sha |-> <<"sha", "a">>],
      [path |-> <<"b">>, content |-> <<"b", "a">>, sha |-> <<"sha", "b">>]>>

ReplaceCall(directives, content) ==
    [pc |-> "safeReplace", ticket |-> TicketOf(ReplaceScope, Arr(directives)),
     reply |-> JsonReply(Undef), scopeFiles |-> FetchedWith(content)]

LiteralInputs ==
    {ReplaceCall(<<Directive(Str(<<"a">>), Arr(rules))>>, c) :
        rules \in StringsUpTo(LiteralRules, MaxRules), c \in ReplaceContents}

\* one literal rule whose find is blank
BlankInputs ==
    {ReplaceCall(<<Directive(Str(<<"a">>), Arr(<<Rule(Str(f), Undef, Str(r))>>))>>, c) :
        f \in BlankTokens, r \in ReplaceValues, c \in ReplaceContents}

FindAnyInputs ==
    {ReplaceCall(<<Directive(Str(<<"a">>), Arr(<<rule>>))>>, c) :
        rule \in AnyRules, c \in ReplaceContents}

ToB == Rule(Str(<<"a">>), Undef, Str(<<"b">>))

NoFindRule == Rule(Undef, Undef, Str(<<"b">>))

\* directives that change a file, that change nothing, and malformed ones
MixedDirectives ==
    {Directive(Str(<<"a">>), Arr(<<ToB>>)),
     Directive(Str(<<"b">>), Arr(<<ToB>>)),
     Directive(Str(<<"a">>), Arr(<<Rule(Str(<<"c">>), Undef, Str(<<"b">>))>>)),
     Directive(Str(<<"a">>), Undef),
     Directive(Undef, Arr(<<ToB>>)),
     Directive(Str(<<"c">>), Arr(<<ToB>>)),
     Directive(Str(<<"a">>), Arr(<<NoFindRule>>)),
     Directive(Str(<<"a">>), Arr(<<ToB, NoFindRule>>)),
     Directive(Str(<<"a">>), Arr(<<Rule(Str(<<"a">>), Undef, Num)>>)),
     Directive(Str(<<"a">>), Arr(<<ToB, Rule(Str(<<"c">>), Undef, Undef)>>))}

\* lists of MAX_FILES and of MAX_FILES + 1 directives that change path a
LongLists ==
    {[i \in 1..n |-> Directive(Str(<<"a">>), Arr(<<ToB>>))] :
        n \in {MAX_FILES, MAX_FILES + 1}}

\* replace values of MAX_FILE_SIZE bytes and of one byte more
BigValues == {<<"x*199999", "x*4800", "x">>, <<"x*199999", "x*4800", "x", "x">>}

\* one rule that turns the file into a value of BigValues
BigInputs ==
    {ReplaceCall(<<Directive(Str(<<"a">>), Arr(<<Rule(Str(<<"a">>), Undef, Str(r))>>))>>,
                 <<"a">>) :
        r \in BigValues}

\* a color_preset object of a ticket
Preset(target, kinds, shades) ==
    [t |-> "object", target |-> target, kinds |-> kinds, shades |-> shades]

\* a directive that has a color_preset and no replacements
PresetDirective(p, preset) ==
    [t |-> "object", path |-> p, replacements |-> Undef, color_preset |-> preset]

\* class tokens of two colours, and of the target, another shade and kind
ClassTokens ==
    {ColorToken(<<"text">>, "red", <<"500">>), ColorToken(<<"text">>, "pink", <<"500">>),
     ColorToken(<<"text">>, "purple", <<"500">>), ColorToken(<<"text">>, "red", <<"600">>),
     ColorToken(<<"bg">>, "red", <<"500">>)}

\* tokens.join(" ")
RECURSIVE JoinClasses(_)
JoinClasses(tokens) ==
    IF tokens = <<>> THEN <<>>
    ELSE IF Len(tokens) = 1 THEN tokens[1]
    ELSE tokens[1] \o <<" ">> \o JoinClasses(Tail(tokens))

\* class lists of at most MaxClasses tokens
ClassContents ==
    {JoinClasses(tokens) : tokens \in StringsUpTo(ClassTokens, MaxClasses) \ {<<>>}}

ValidPresets ==
    {Preset(Str(<<tg>>), Arr(kinds), Arr(shades)) :
        tg \in {"purple", "red"},
        kinds \in {<<Str(<<"text">>)>>, <<Str(<<"text">>), Str(<<"bg">>)>>},
        shades \in {<<Str(<<"500">>)>>, <<Num, Str(<<"600">>)>>}}

\* one directive with a valid preset on a class list
PresetCalls ==
    {[pc |-> "safeReplace",
      ticket |-> TicketOf(ReplaceScope, Arr(<<PresetDirective(Str(<<"a">>), preset)>>)),
      reply |-> JsonReply(Undef), scopeFiles |-> FetchedWith(content)] :
        preset \in ValidPresets, content \in ClassContents}

MixedInputs ==
    {ReplaceCall(ds, c) :
        ds \in (StringsUpTo(MixedDirectives, MaxDirectives) \ {<<>>}) \cup LongLists,
        c \in {<<"a">>, <<"b">>}}

InitReplace ==
    \/ \E in \in LiteralInputs : BeforeCall(in)
    \/ \E in \in BlankInputs : BeforeCall(in)
    \/ \E in \in FindAnyInputs : BeforeCall(in)
    \/ \E in \in MixedInputs : BeforeCall(in)
    \/ \E in \in BigInputs : BeforeCall(in)
    \/ \E in \in PresetCalls : BeforeCall(in)

SpecReplace == InitReplace /\ [][CallSafeReplace]_vars

(***************************************************************************)
(* buildColorPresetReplacements applied to the preset of one directive:    *)
(* targets in and out of the palette, lists of at most MaxKinds kinds and  *)
(* MaxShades shades, recognized or not.                                    *)
(***************************************************************************)
CallBuildColorPresetReplacements ==
    /\ pc = "buildColorPresetReplacements"
    /\ \E r \in {BuildColorPresetReplacements(ticket.safe_replace.v[1].color_preset)} :
           /\ presetRules' = r.rules
           /\ error' = r.err
           /\ pc' = IF r.err = "none" THEN "built" ELSE "threw"
    /\ UNCHANGED <<Inputs, shas, merge>>
    /\ UNCHANGED <<ticket, scopeFiles, modelFiles, log, rails, branch, committed, pr, exitCode>>

PresetTargets ==
    {Str(<<"purple">>), Str(<<"red">>), Str(<<" ", "green">>), Str(<<"blue">>), Undef}

PresetKinds == {Str(<<"text">>), Str(<<"bg">>), Str(<<"hover", ":", "text">>), Str(<<"x">>)}

PresetShades == {Str(<<"500">>), Str(<<"600">>), Num, Str(<<"900">>)}

ListedPresets ==
    {Preset(tg, Arr(kinds), Arr(shades)) :
        tg \in PresetTargets,
        kinds \in StringsUpTo(PresetKinds, MaxKinds),
        shades \in StringsUpTo(PresetShades, MaxShades)}

\* presets without lists, and values that are no preset object
OtherPresets ==
    {Preset(Str(<<"purple">>), Undef, Undef), Preset(Str(<<"purple">>), Str(<<"text">>), Num),
     Str(<<"purple">>), Arr(<<>>)}

PresetInput(preset) ==
    [pc |-> "buildColorPresetReplacements",
     ticket |-> TicketOf(ReplaceScope, Arr(<<PresetDirective(Str(<<"a">>), preset)>>)),
     reply |-> JsonReply(Undef), scopeFiles |-> FetchedWith(<<"a">>)]

InitPreset ==
    \/ \E preset \in ListedPresets : BeforeCall(PresetInput(preset))
    \/ \E preset \in OtherPresets : BeforeCall(PresetInput(preset))

SpecPreset == InitPreset /\ [][CallBuildColorPresetReplacements]_vars

(***************************************************************************)
(* Properties of validateModelFiles, safeReplace and parseTicket.          *)
(***************************************************************************)
Called == pc \in {"returned", "threw"}

\* the call was validateModelFiles on a sequence of files
ValidatedSequence == Called /\ ~UsesSafeReplace(ticket) /\ IsArray(reply.files)

\* the call was on one file, or on one directive, with a string as its path
OnePath ==
    IF UsesSafeReplace(ticket)
    THEN ticket.safe_replace.v[1].path.t = "string"
    ELSE /\ IsArray(reply.files) /\ Len(reply.files.v) = 1
         /\ reply.files.v[1].path.t = "string"
         /\ reply.files.v[1].contents_base64.t = "string"

\* the normalized candidate path of that call
CandidatePath ==
    Normalize(StripDotSlash(IF UsesSafeReplace(ticket)
                            THEN ticket.safe_replace.v[1].path.v
                            ELSE reply.files.v[1].path.v))

\* the scope-violation error of the containment check of the call
ScopeViolation ==
    IF UsesSafeReplace(ticket) THEN error = "SafeReplace path outside scope"
    ELSE error = "Model attempted to modify path outside scope"

\* e followed by rest is p
Extends(p, e, rest) == p = e \o rest

Suffixes(p) == {SubSeq(p, k, Len(p)) : k \in 1..(Len(p) + 1)}

\* the path equals an entry or is a proper descendant of a marked entry
ContainedAsStated(p, scope) ==
    \E i \in 1..Len(scope) :
        \/ p = scope[i]
        \/ /\ scope[i] # <<>>
           /\ scope[i][Len(scope[i])] = "/"
           /\ \E rest \in Suffixes(p) : rest # <<>> /\ Extends(p, scope[i], rest)

\* as stated, or below an entry that carries no directory mark
ContainedAsCoded(p, scope) ==
    \/ ContainedAsStated(p, scope)
    \/ \E i \in 1..Len(scope) :
           /\ scope[i] # <<>>
           /\ scope[i][Len(scope[i])] # "/"
           /\ \E rest \in Suffixes(p) : Extends(p, scope[i] \o <<"/">>, rest)

\* C1 (amended): a normalized candidate path that does not escape the
\* repository is accepted by the containment predicate of validateModelFiles
\* and of safeReplace if and only if it equals a scope entry, or is a proper
\* descendant of a directory-marked entry, or lies below an unmarked entry
\* (entry, then "/", then anything); every other path is rejected with the
\* scope-violation error.
C1_ContainmentAsCoded ==
    (Called /\ OnePath /\ ~EscapesRepository(CandidatePath))
        => (ScopeViolation <=> ~ContainedAsCoded(CandidatePath, ticket.scope))

\* C1 witness: validateModelFiles returned a file below an unmarked entry
C1_BelowUnmarkedAccepted ==
    /\ pc = "returned"
    /\ ~UsesSafeReplace(ticket)
    /\ ticket.scope = <<<<"a">>>>
    /\ Len(modelFiles) = 1
    /\ modelFiles[1].path = <<"a", "/", "b">>

\* C1 as stated: a path is accepted if and only if it equals a scope entry
\* or is a proper descendant of a directory-marked entry.
C1_ContainmentAsStated ==
    (Called /\ OnePath /\ ~EscapesRepository(CandidatePath))
        => (ScopeViolation <=> ~ContainedAsStated(CandidatePath, ticket.scope))

\* no segment of the path is ".."
NoParentSegment(p) ==
    ~\E i \in 1..(Len(p) - 1) :
        /\ p[i] = "." /\ p[i + 1] = "."
        /\ (i = 1 \/ p[i - 1] = "/")
        /\ (i + 1 = Len(p) \/ p[i + 2] = "/")

\* C2: when parseTicket returns a ticket, its scope is non-empty and every
\* entry is a non-empty relative path with no ".." component.
C2_ScopeWellFormed ==
    pc = "fetch" =>
        /\ Len(ticket.scope) > 0
        /\ \A i \in 1..Len(ticket.scope) :
               /\ ticket.scope[i] # <<>>
               /\ ticket.scope[i][1] # "/"
               /\ NoParentSegment(ticket.scope[i])

\* well-formed base64: alphabet characters, then no padding or the padding
\* the length asks for
ValidBase64(s) ==
    \E k \in 0..Len(s) :
        /\ \A i \in 1..k : s[i][1] = "b64"
        /\ \A i \in (k + 1)..Len(s) : s[i][1] = "="
        /\ Len(s) - k \in {0, (3 - (ByteLength([i \in 1..k |-> s[i][2]]) % 3)) % 3}

\* C5: validateModelFiles rejects every file sequence with an entry whose
\* contents_base64 is not valid base64, and returns no candidate file.
C5_InvalidBase64Rejected ==
    (/\ ValidatedSequence
     /\ \E i \in 1..Len(reply.files.v) :
            /\ reply.files.v[i].contents_base64.t = "string"
            /\ ~ValidBase64(reply.files.v[i].contents_base64.v))
        => (pc = "threw" /\ modelFiles = <<>>)

\* the first segment of the path is ".."
BeginsWithParent(p) == p = <<".", ".">> \/ StartsWith(p, <<".", ".", "/">>)

\* C6: validateModelFiles rejects every file sequence with an entry whose
\* path, "./" stripped and normalized, begins with a parent-traversal
\* component, and returns no candidate file.
C6_TraversalRejected ==
    (/\ ValidatedSequence
     /\ \E i \in 1..Len(reply.files.v) :
            /\ reply.files.v[i].path.t = "string"
            /\ BeginsWithParent(Normalize(StripDotSlash(reply.files.v[i].path.v))))
        => (pc = "threw" /\ modelFiles = <<>>)

LengthError ==
    error \in {"JSON response must include at least one file.",
               "Refusing to modify more than MAX_FILES files."}

\* C7: validateModelFiles rejects a file sequence for its length if and only
\* if the sequence is empty or has more than 5 entries, and on success it
\* returns one candidate file per entry, in the order of the entries.
C7_CountBound ==
    ValidatedSequence =>
        /\ LengthError <=> (Len(reply.files.v) = 0 \/ Len(reply.files.v) > 5)
        /\ pc = "returned" =>
               /\ Len(modelFiles) = Len(reply.files.v)
               /\ \A i \in 1..Len(modelFiles) :
                      /\ modelFiles[i].base64 = reply.files.v[i].contents_base64.v
                      /\ modelFiles[i].path =
                             Normalize(StripDotSlash(reply.files.v[i].path.v))

\* C7 witness: a sequence of five entries was accepted, two of them distinct
C7_FiveAccepted ==
    /\ pc = "returned"
    /\ ~UsesSafeReplace(ticket)
    /\ Len(modelFiles) = 5
    /\ modelFiles[1].path # modelFiles[2].path

(***************************************************************************)
(* Properties of a run.                                                    *)
(***************************************************************************)
IsPrefix(s, t) == Len(s) <= Len(t) /\ \A i \in 1..Len(s) : s[i] = t[i]

\* Sanity Rails was called on the candidate set of the run and returned
RailsPassed == rails.ran /\ rails.check = "none" /\ rails.files = modelFiles

\* the spellings of "false" the environments hold
FalseSpellings == {Str(<<"false">>), Str(<<"FALSE">>), Str(<<"False">>)}

\* C3 (amended): in every run in which VERIFY_STRICT is not "false" in any
\* letter case, no branch is created and no file is committed unless
\* runSanityRails was called on exactly the candidate set to be committed
\* and returned without error, for the SafeReplace and for the LLM source.
C3_RailsUnlessFalseAnyCase ==
    (env.VERIFY_STRICT \notin FalseSpellings /\ (branch \/ committed # <<>>))
        => (RailsPassed /\ IsPrefix(committed, rails.files))

\* C3 witness: a SafeReplace run under the default environment went through
\* Sanity Rails and committed its candidate set
C3_RailsThenCommit ==
    /\ env.VERIFY_STRICT = Undef
    /\ UsesSafeReplace(ticket)
    /\ RailsPassed
    /\ branch
    /\ committed # <<>>
    /\ committed = modelFiles

\* C3 as stated: the same with VERIFY_STRICT other than exactly "false".
C3_RailsUnlessFalse ==
    (env.VERIFY_STRICT # Str(<<"false">>) /\ (branch \/ committed # <<>>))
        => (RailsPassed /\ IsPrefix(committed, rails.files))

\* what the stages compute from the inputs of the run
ParseFails == ~doc.exists \/ ParseTicket(doc).err # "none" \/ ~GitHubEnvOk(env)

FetchOf(tk) == FetchScopeFilesResult(tk.scope, repo)

EditOf(tk, fetched) ==
    IF UsesSafeReplace(tk) THEN SafeReplace(tk, fetched)
    ELSE CallLLMResult(env, reply, tk.scope)

\* the candidate set of the run, when parse, fetch and edit succeed
EditOfRun == EditOf(ParseTicket(doc).ticket, FetchOf(ParseTicket(doc).ticket).files)

\* some stage before the branch stage fails on these inputs
EarlyFailure ==
    \/ ParseFails
    \/ FetchOf(ParseTicket(doc).ticket).err # "none"
    \/ EditOfRun.err # "none"
    \/ VerifyStrict(env) /\ RunSanityRails(EditOfRun.files).err # "none"

\* C4: a failure of the parse, fetch, edit or Sanity Rails stage aborts the
\* run: no branch, no commit and no pull request follow, the run ends failed
\* with a nonzero exit code, and what the commit stage receives and writes is
\* the whole candidate set of the edit stage, never a part of it.
C4_FailureAborts ==
    /\ EarlyFailure =>
           /\ ~branch /\ committed = <<>> /\ ~pr
           /\ pc \in {"parse", "fetch", "edit", "rails", "failed"}
    /\ pc = "failed" => exitCode # 0
    /\ pc \in {"commit", "pr"} \/ committed # <<>> =>
           /\ modelFiles = EditOfRun.files
           /\ IsPrefix(committed, modelFiles)
    /\ pc = "pr" \/ pr => committed = modelFiles

\* C4 witness: Sanity Rails rejected the candidate set and the run stopped
C4_RailsFailureStops ==
    /\ pc = "failed"
    /\ rails.ran
    /\ rails.check # "none"
    /\ exitCode = 1
    /\ ~branch

(***************************************************************************)
(* Properties of runSanityRails.                                           *)
(***************************************************************************)
TextBytes(file) == ByteLength(Utf8Encode(file.contents))

\* C8: the size check of Sanity Rails accepts a candidate file exactly when
\* its content holds n bytes with 0 < n <= 204800, the bound of the
\* validator, so no file the validator accepted fails the size check.
C8_SizeBoundsAgree ==
    (rails.ran /\ Len(rails.files) = 1)
        => (rails.check = "size"
               <=> ~(0 < TextBytes(rails.files[1]) /\ TextBytes(rails.files[1]) <= 204800))

CriticalPaths == {LayoutPath, NowPlayingPath}

AnchorsOf(p) ==
    IF p = LayoutPath THEN ROOT_LAYOUT_EXPORT_ANCHORS ELSE NOW_PLAYING_EXPORT_ANCHORS

ExportCheckOf(p) == IF p = LayoutPath THEN "RootLayout export" ELSE "NowPlaying export"

HasAnchor(file, p) == \E anchor \in AnchorsOf(p) : Includes(file.contents, anchor)

\* C9: runSanityRails rejects every candidate set with a file of a critical
\* path whose content holds none of the anchors of that path, and a critical
\* path whose files all hold one of its anchors is not rejected by the
\* export check.
C9_CriticalPathsNeedAnchor ==
    rails.ran =>
        /\ (\E i \in 1..Len(rails.files) :
               /\ rails.files[i].path \in CriticalPaths
               /\ ~HasAnchor(rails.files[i], rails.files[i].path))
           => (pc = "failed" /\ error = "SanityRails failure" /\ rails.check # "none")
        /\ \A p \in CriticalPaths :
               (\A i \in 1..Len(rails.files) :
                    rails.files[i].path = p => HasAnchor(rails.files[i], p))
               => ~(rails.path = p /\ rails.check = ExportCheckOf(p))

\* C9 witness: src/app/layout.tsx without an anchor failed the export check
C9_LayoutWithoutAnchorRejected ==
    /\ pc = "failed"
    /\ rails.ran
    /\ rails.path = LayoutPath
    /\ rails.check = "RootLayout export"

\* the characters of the denylist among those the contents hold
Denylisted == {"NUL", "BEL", "VT", "ESC", "DEL", "U+FFFD"}

\* size within the bound of Sanity Rails and no denylisted character
PlainFile(file) ==
    /\ 0 < TextBytes(file)
    /\ TextBytes(file) <= SANITY_MAX_SIZE
    /\ \A i \in 1..Len(file.contents) : file.contents[i] \notin Denylisted

\* C10 (amended): runSanityRails accepts every candidate set whose files are
\* within the size bound, hold no denylisted character and have a path that
\* does not end with a critical path; the export checks are applied to the
\* paths that end with a critical path and to no other path.
C10_PathsEndingCritical ==
    rails.ran =>
        /\ (\A i \in 1..Len(rails.files) :
               /\ PlainFile(rails.files[i])
               /\ \A p \in CriticalPaths : ~EndsWith(rails.files[i].path, p))
           => (rails.check = "none" /\ pc = "branch" /\ error = "none")
        /\ \A p \in CriticalPaths :
               rails.check = ExportCheckOf(p) => EndsWith(rails.path, p)

\* C10 witness: a file of another path holding a TAB was accepted
C10_OtherPathAccepted ==
    /\ pc = "branch"
    /\ rails.ran
    /\ Len(rails.files) = 1
    /\ rails.files[1].path = <<"a">>
    /\ \E i \in 1..Len(rails.files[1].contents) : rails.files[1].contents[i] = "TAB"

\* C10 as stated: every candidate set whose files are within the size bound,
\* hold no denylisted character and have a path that is not a critical path
\* is accepted.
C10_PathsOtherThanCritical ==
    (/\ rails.ran
     /\ \A i \in 1..Len(rails.files) :
            PlainFile(rails.files[i]) /\ rails.files[i].path \notin CriticalPaths)
        => (rails.check = "none" /\ pc = "branch" /\ error = "none")


(***************************************************************************)
(* Properties of the rules of safeReplace.                                 *)
(***************************************************************************)
\* the call was safeReplace on one directive, of path a, with a rule list
OneDirective ==
    /\ Called
    /\ UsesSafeReplace(ticket)
    /\ Len(ticket.safe_replace.v) = 1
    /\ ticket.safe_replace.v[1].path = Str(<<"a">>)
    /\ IsArray(ticket.safe_replace.v[1].replacements)

RulesOf == ticket.safe_replace.v[1].replacements.v

\* the fetched content of a normalized path
FetchedContent(p) ==
    scopeFiles[CHOOSE i \in 1..Len(scopeFiles) : scopeFiles[i].path = p].content

Original == FetchedContent(<<"a">>)

\* s with every occurrence of the non-empty t, taken from the left, replaced by r
RECURSIVE ReplaceEvery(_, _, _)
ReplaceEvery(s, t, r) ==
    IF s = <<>> THEN <<>>
    ELSE IF Len(t) <= Len(s) /\ \A i \in 1..Len(t) : s[i] = t[i]
    THEN r \o ReplaceEvery([i \in 1..(Len(s) - Len(t)) |-> s[i + Len(t)]], t, r)
    ELSE <<s[1]>> \o ReplaceEvery([i \in 1..(Len(s) - 1) |-> s[i + 1]], t, r)

\* a literal rule: a non-empty find string and a replace string
LiteralRule(rule) ==
    /\ rule.replace.t = "string"
    /\ rule.find.t = "string"
    /\ rule.find.v # <<>>

\* the rules composed from left to right on a content
RECURSIVE Compose(_, _)
Compose(rules, content) ==
    IF rules = <<>> THEN content
    ELSE Compose([i \in 1..(Len(rules) - 1) |-> rules[i + 1]],
                 ReplaceEvery(content, rules[1].find.v, rules[1].replace.v))

LiteralDirective == OneDirective /\ \A i \in 1..Len(RulesOf) : LiteralRule(RulesOf[i])

\* what a call on one directive makes of a rewritten content: nothing to
\* return when it equals the fetched content, else one file holding it
YieldsContent(final) ==
    IF final = Original THEN modelFiles = <<>>
    ELSE /\ Len(modelFiles) = 1
         /\ modelFiles[1].path = <<"a">>
         /\ modelFiles[1].contents = final

\* C11: within one directive safeReplace applies the rules in declared
\* order, each on the content the previous rule produced and the first on
\* the fetched content: the content a call returns is the left-to-right
\* composition of the rules.
C11_RulesCompose ==
    (pc = "returned" /\ LiteralDirective) => YieldsContent(Compose(RulesOf, Original))

\* C11 witness: the second rule replaced text that only the first rule
\* brought into the content
C11_LaterRuleSeesEarlier ==
    /\ pc = "returned"
    /\ LiteralDirective
    /\ Len(RulesOf) = 2
    /\ ~Includes(Original, RulesOf[2].find.v)
    /\ Len(modelFiles) = 1
    /\ modelFiles[1].contents #
           ReplaceEvery(Original, RulesOf[1].find.v, RulesOf[1].replace.v)

\* the call was safeReplace on one directive of one find_any rule
AnyDirective ==
    /\ OneDirective
    /\ Len(RulesOf) = 1
    /\ RulesOf[1].replace.t = "string"
    /\ IsArray(RulesOf[1].find_any)

\* the tokens a find_any rule lists, trimmed as the rule reads them
ListedTokens ==
    {Trim(RulesOf[1].find_any.v[i].v) : i \in 1..Len(RulesOf[1].find_any.v)} \ {<<>>}

Occurring == {t \in ListedTokens : Includes(Original, t)}

\* the occurring tokens no other occurring token precedes
Lowest == {t \in Occurring : \A u \in Occurring : IndexOf(Original, t) <= IndexOf(Original, u)}

\* a call whose rewritten content is empty throws: validateModelFiles
\* refuses a file that decodes to nothing
YieldsOrEmpty(final) ==
    IF final = <<>> /\ Original # <<>> THEN pc = "threw" /\ modelFiles = <<>>
    ELSE pc = "returned" /\ YieldsContent(final)

\* C12: a find_any rule replaces every occurrence of one listed token, a
\* token whose first occurrence has the lowest offset among the listed
\* tokens that occur in the content, and nothing else: whatever lies
\* outside the occurrences of that token, occurrences of the other listed
\* tokens included, is kept.
C12_LowestOffsetTokenOnly ==
    (AnyDirective /\ Occurring # {})
        => \E t \in Lowest : YieldsOrEmpty(ReplaceEvery(Original, t, RulesOf[1].replace.v))

\* C12 witness: two listed tokens occur, the later listed one first in the
\* content; it was replaced and the other one still occurs
C12_SecondListedChosen ==
    /\ AnyDirective
    /\ pc = "returned"
    /\ Len(RulesOf[1].find_any.v) = 2
    /\ Cardinality(Occurring) = 2
    /\ Lowest = {Trim(RulesOf[1].find_any.v[2].v)}
    /\ Len(modelFiles) = 1
    /\ ~Includes(modelFiles[1].contents, Trim(RulesOf[1].find_any.v[2].v))
    /\ Includes(modelFiles[1].contents, Trim(RulesOf[1].find_any.v[1].v))

\* the call with the tokens of the find_any rule listed in the order f
Reordered(f) ==
    SafeReplace(
        TicketOf(ticket.scope,
                 Arr(<<Directive(Str(<<"a">>),
                                 Arr(<<Rule(Undef,
                                            Arr([i \in 1..Len(RulesOf[1].find_any.v) |->
                                                    RulesOf[1].find_any.v[f[i]]]),
                                            RulesOf[1].replace)>>))>>)),
        scopeFiles)

SameOutcomeInEveryOrder ==
    \A f \in Permutations(1..Len(RulesOf[1].find_any.v)) :
        Reordered(f) = [err |-> error, files |-> modelFiles]

\* C13 (amended): the outcome of a find_any rule does not depend on the
\* order of its tokens whenever at most one listed token occurs at the
\* lowest offset; two distinct tokens share that offset when one is a
\* prefix of the other, and then the one listed first is replaced.
C13_OrderFreeWithoutTie ==
    (AnyDirective /\ Cardinality(Lowest) <= 1) => SameOutcomeInEveryOrder

\* C13 witness: of two occurring tokens the one listed second was replaced
C13_LowerOffsetListedSecond ==
    /\ AnyDirective
    /\ pc = "returned"
    /\ RulesOf[1].find_any.v = <<Str(<<"a">>), Str(<<"b">>)>>
    /\ Original = <<"b", "a">>
    /\ RulesOf[1].replace.v = <<"c">>
    /\ Len(modelFiles) = 1
    /\ modelFiles[1].contents = <<"c", "a">>

\* C13 as stated: for every content and every permutation of the token
\* list the outcome is the same.
C13_OrderFree == AnyDirective => SameOutcomeInEveryOrder


\* a rule with a replace string and a search token that is blank once
\* trimmed: its find, or one of the tokens of its find_any
BlankToken(rule) ==
    /\ rule.replace.t = "string"
    /\ \/ rule.find.t = "string" /\ Trim(rule.find.v) = <<>>
       \/ /\ rule.find.t # "string"
          /\ IsArray(rule.find_any)
          /\ \E i \in 1..Len(rule.find_any.v) : Trim(rule.find_any.v[i].v) = <<>>

\* C14: a rule whose find is empty after trimming, or whose find_any holds
\* a token that is empty after trimming, is rejected with an error and is
\* never applied to the content.
C14_BlankTokenRejected ==
    (OneDirective /\ Len(RulesOf) = 1 /\ BlankToken(RulesOf[1]))
        => (pc = "threw" /\ modelFiles = <<>>)

\* the search tokens of a rule as the rule reads them: its find, or the
\* trimmed tokens of its find_any
TokensOf(rule) ==
    IF rule.find.t = "string" THEN {rule.find.v}
    ELSE {Trim(rule.find_any.v[i].v) : i \in 1..Len(rule.find_any.v)} \ {<<>>}

\* a rule with a replace string and at least one non-empty search token
WellFormedRule(rule) ==
    /\ rule.replace.t = "string"
    /\ rule.find.t = "string" \/ IsArray(rule.find_any)
    /\ TokensOf(rule) # {}
    /\ <<>> \notin TokensOf(rule)

\* no search token of the rule occurs in the content
Missing(rule, content) == \A t \in TokensOf(rule) : ~Includes(content, t)

AfterRule(rule, content) == ReplaceEvery(content, rule.find.v, rule.replace.v)

\* C16: when one find token of a directive of literal rules is missing from
\* the file, no candidate file is emitted for the file, whatever the other
\* rules of the directive matched.
C16_MissingTokenLeavesFile ==
    (LiteralDirective /\ \E i \in 1..Len(RulesOf) : ~Includes(Original, RulesOf[i].find.v))
        => modelFiles = <<>>

Directives == ticket.safe_replace.v

\* a directive for a fetched path of ReplaceScope, with literal rules or
\* none, and no color preset
WellFormedDirective(d) ==
    /\ d.path \in {Str(<<"a">>), Str(<<"b">>)}
    /\ d.color_preset = Undef
    /\ IsArray(d.replacements) => \A i \in 1..Len(d.replacements.v) : LiteralRule(d.replacements.v[i])

AllWellFormed ==
    /\ Called
    /\ UsesSafeReplace(ticket)
    /\ \A i \in 1..Len(Directives) : WellFormedDirective(Directives[i])

\* the content of the file of a directive once its rules are applied
Rewritten(d) ==
    IF IsArray(d.replacements) THEN Compose(d.replacements.v, FetchedContent(d.path.v))
    ELSE FetchedContent(d.path.v)

Changed(d) == Rewritten(d) # FetchedContent(d.path.v)

\* one candidate file for each directive that changed its file, in order
ExpectedFiles(ds) ==
    [i \in 1..Len(SelectSeq(ds, Changed)) |->
        [path |-> SelectSeq(ds, Changed)[i].path.v,
         contents |-> Rewritten(SelectSeq(ds, Changed)[i])]]

ReturnedFiles ==
    [i \in 1..Len(modelFiles) |->
        [path |-> modelFiles[i].path, contents |-> modelFiles[i].contents]]

\* the collected files fail validateModelFiles: more than MAX_FILES of
\* them, or one that is empty or larger than MAX_FILE_SIZE bytes
Refused(files) ==
    \/ Len(files) > MAX_FILES
    \/ \E i \in 1..Len(files) :
           \/ files[i].contents = <<>>
           \/ ByteLength(Utf8Encode(files[i].contents)) > MAX_FILE_SIZE

\* the rules of a directive, none when it has no rule list
RuleList(d) == IF IsArray(d.replacements) THEN d.replacements.v ELSE <<>>

\* C15: a rule none of whose search tokens occurs in the current content
\* raises nothing and leaves the content as it is, and the next rule is
\* applied to that content; a directive none of whose rules matched yields
\* no candidate file, and the next directive is processed.
C15_MissingTokensChangeNothing ==
    /\ (OneDirective /\ \A i \in 1..Len(RulesOf) : WellFormedRule(RulesOf[i]))
        => /\ (\A i \in 1..Len(RulesOf) : Missing(RulesOf[i], Original))
                  => (pc = "returned" /\ modelFiles = <<>>)
           /\ (Len(RulesOf) = 2 /\ Missing(RulesOf[1], Original) /\ LiteralRule(RulesOf[2]))
                  => YieldsOrEmpty(AfterRule(RulesOf[2], Original))
           /\ (/\ Len(RulesOf) = 2
               /\ LiteralRule(RulesOf[1])
               /\ Missing(RulesOf[2], AfterRule(RulesOf[1], Original)))
                  => YieldsOrEmpty(AfterRule(RulesOf[1], Original))
    /\ (/\ AllWellFormed
        /\ Len(Directives) = 2
        /\ \A i \in 1..Len(RuleList(Directives[1])) :
               Missing(RuleList(Directives[1])[i], FetchedContent(Directives[1].path.v)))
           => IF Refused(ExpectedFiles(<<Directives[2]>>))
              THEN pc = "threw" /\ modelFiles = <<>>
              ELSE pc = "returned" /\ ReturnedFiles = ExpectedFiles(<<Directives[2]>>)

\* C15 witness: the first rule found no token, the second one rewrote the file
C15_MissingThenMatching ==
    /\ pc = "returned"
    /\ LiteralDirective
    /\ Len(RulesOf) = 2
    /\ Missing(RulesOf[1], Original)
    /\ Len(modelFiles) = 1
    /\ modelFiles[1].contents = AfterRule(RulesOf[2], Original)

\* C17 (amended): a safeReplace call that returns returns one candidate
\* file for each directive whose content after all rules differs from the
\* fetched content, and for no other directive, each holding exactly the
\* rewritten content; the call throws and returns nothing when the files
\* to return fail the checks of validateModelFiles (a rewritten content
\* that is empty, more than MAX_FILES files).
C17_ChangedFilesReturned ==
    AllWellFormed
        => IF Refused(ExpectedFiles(Directives))
           THEN pc = "threw" /\ modelFiles = <<>>
           ELSE pc = "returned" /\ ReturnedFiles = ExpectedFiles(Directives)

\* C17 witness: of two directives only the second changed its file
C17_OnlyChangedFileReturned ==
    /\ pc = "returned"
    /\ AllWellFormed
    /\ Len(Directives) = 2
    /\ ~Changed(Directives[1])
    /\ Changed(Directives[2])
    /\ ReturnedFiles = <<[path |-> Directives[2].path.v,
                          contents |-> Rewritten(Directives[2])]>>

\* C17 as stated: a candidate file is emitted for a directive if and only
\* if its content after all rules differs from the fetched content, and it
\* holds the rewritten content.
C17_ChangedFilesEmitted ==
    AllWellFormed => ReturnedFiles = ExpectedFiles(Directives)


\* a rule that safeReplace refuses: no replace string, or neither a find
\* string nor a find_any list
InvalidRule(rule) ==
    \/ rule.replace.t # "string"
    \/ rule.find.t # "string" /\ ~IsArray(rule.find_any)

\* a structurally invalid directive: no path string, a path outside the
\* scope, or a rule that safeReplace refuses
InvalidDirective(d) ==
    \/ d.path.t # "string"
    \/ ~ContainedAsCoded(Normalize(StripDotSlash(d.path.v)), ticket.scope)
    \/ \E i \in 1..Len(RuleList(d)) : InvalidRule(RuleList(d)[i])

\* C20: safeReplace throws and returns no candidate file whenever one of
\* the directives is structurally invalid (no path string, a path outside
\* the scope, a rule with neither find nor find_any, a replace that is no
\* string), wherever the directive or the rule sits in its list.
C20_InvalidDirectiveAborts ==
    (/\ Called
     /\ UsesSafeReplace(ticket)
     /\ \E i \in 1..Len(Directives) : InvalidDirective(Directives[i]))
        => (pc = "threw" /\ error # "none" /\ modelFiles = <<>>)

\* C20 witness: the call threw on its second directive after the first one
\* had changed its file
C20_AbortAfterChange ==
    /\ pc = "threw"
    /\ UsesSafeReplace(ticket)
    /\ Len(Directives) = 2
    /\ WellFormedDirective(Directives[1])
    /\ Changed(Directives[1])
    /\ InvalidDirective(Directives[2])
    /\ modelFiles = <<>>

(***************************************************************************)
(* Properties of the edit stage of a run.                                  *)
(***************************************************************************)
Logged(msg) == \E i \in 1..Len(log) : log[i] = msg

\* the edit stage of the run is over
EditOver == pc \notin {"parse", "fetch", "edit"}

\* every directive of the ticket names a fetched file, has literal rules
\* only, and leaves the content of its file as fetched
RunWithoutChange ==
    /\ UsesSafeReplace(ticket)
    /\ \A i \in 1..Len(Directives) :
           /\ Directives[i].path.t = "string"
           /\ \E k \in 1..Len(scopeFiles) : scopeFiles[k].path = Directives[i].path.v
           /\ \A j \in 1..Len(RuleList(Directives[i])) :
                  LiteralRule(RuleList(Directives[i])[j])
           /\ ~Changed(Directives[i])

\* C18: a SafeReplace run in which no directive changes the content of its
\* file ends early and successfully: Sanity Rails is not run, no branch,
\* commit or PR is made, the LLM is not called and the exit code stays 0.
C18_NoChangeEndsEarly ==
    (EditOver /\ RunWithoutChange)
        => /\ pc = "done"
           /\ exitCode = 0
           /\ error = "none"
           /\ modelFiles = <<>>
           /\ rails = NoRails
           /\ ~branch
           /\ committed = <<>>
           /\ ~pr
           /\ ~Logged("3/7 call LLM")
           /\ ~Logged("4/7 run sanity rails")

\* C18 witness: a run whose only rule matched and put the same text back
\* ended early
C18_EarlyExit ==
    /\ pc = "done"
    /\ RunWithoutChange
    /\ Includes(FetchedContent(Directives[1].path.v), RuleList(Directives[1])[1].find.v)
    /\ Logged("SafeReplace: no files modified; exiting early.")

\* C19: a ticket with a safe_replace field takes the SafeReplace path and
\* never calls the generative source, a ticket without one takes the
\* generative path; one of the two sources runs in a run, never both.
C19_SourceByTicketShape ==
    EditOver /\ (Logged("3/7 safe replace") \/ Logged("3/7 call LLM"))
        => /\ ticket.safe_replace.t # "undefined"
                  <=> (Logged("3/7 safe replace") /\ ~Logged("3/7 call LLM"))
           /\ ticket.safe_replace.t = "undefined"
                  <=> (Logged("3/7 call LLM") /\ ~Logged("3/7 safe replace"))

(***************************************************************************)
(* Properties of the PR stage and of the scripted merge fallback.          *)
(***************************************************************************)
\* the run entered the fallback branch of run()
InFallback == Logged("Scripted merge fallback: waiting for required check")

\* C24: in a run whose USE_SCRIPTED_MERGE is not 'true' the fallback stays
\* off: no check run is polled, the PR is not merged through the API and no
\* 'Not merging' comment is posted, whether arming auto-merge succeeded or
\* failed.
C24_FallbackOffByDefault ==
    ~UseScriptedMerge(env)
        => /\ ~InFallback
           /\ merge.polls = 0
           /\ ~merge.merged
           /\ ~merge.commented

Sent(i) == [path |-> modelFiles[i].path, sha |-> shas[i]]

\* C26: every file update commitFiles sends carries the sha of the fetched
\* scope file of the same path: no update is sent without a sha, and every
\* path sent is the path of a fetched file.
C26_UpdatesCarryFetchedSha ==
    \A i \in 1..Len(shas) :
        /\ Sent(i).sha # NoSha
        /\ \E k \in 1..Len(scopeFiles) :
               /\ scopeFiles[k].path = Sent(i).path
               /\ scopeFiles[k].sha = Sent(i).sha

\* the commit stage started and one of its requests failed
CommitFailed == pc = "failed" /\ Logged("6/7 commit")

\* C28: the commit stage is all or nothing: when the update of a file
\* fails, no file of the set is committed on the branch and no PR is
\* opened; when the stage is over without failure, every file is committed.
C28_CommitAllOrNothing ==
    /\ CommitFailed /\ ~Logged("7/7 open PR + arm auto-merge")
           => committed = <<>> /\ ~pr
    /\ pc \in {"pr", "wait", "merge", "comment"} \/ pr
           => committed = modelFiles

(***************************************************************************)
(* Properties of the order of the stages of a run.                         *)
(***************************************************************************)
\* the number of the stage a console line announces, 0 for any other line
StageNo(msg) ==
    CASE msg = "1/7 read ticket" -> 1
      [] msg = "2/7 fetch scope files" -> 2
      [] msg \in {"3/7 safe replace", "3/7 call LLM"} -> 3
      [] msg \in {"4/7 run sanity rails",
                  "4/7 run sanity rails (skipped, VERIFY_STRICT=false)"} -> 4
      [] msg = "5/7 create branch" -> 5
      [] msg = "6/7 commit" -> 6
      [] msg = "7/7 open PR + arm auto-merge" -> 7
      [] OTHER -> 0

IsStage(msg) == StageNo(msg) # 0

\* the stages the run has started, in the order it started them
Started == SelectSeq(log, IsStage)

\* C25: the stages of a run start in the order parse, fetch, edit, Sanity
\* Rails, branch, commit, PR, each at most once, and a stage starts only
\* when the stage before it has completed.
C25_StagesInOrder ==
    /\ \A i \in 1..Len(Started) : StageNo(Started[i]) = i
    /\ Len(Started) >= 2 => ticket # NoTicket
    /\ Len(Started) >= 3 => Len(scopeFiles) = Len(ticket.scope)
    /\ Len(Started) >= 4 => modelFiles # <<>>
    /\ Len(Started) >= 5 => rails.ran \/ ~VerifyStrict(env)
    /\ Len(Started) >= 6 => branch
    /\ Len(Started) >= 7 => committed = modelFiles
    /\ pc = "failed" => Len(Started) < 7 \/ ~pr

\* C25 witness: a run that went through its seven stages and opened the PR
C25_AllStagesRan ==
    /\ pc = "done"
    /\ pr
    /\ Len(Started) = 7
    /\ rails.ran

(***************************************************************************)
(* Properties of the files safeReplace returns.                            *)
(***************************************************************************)
\* C27: safeReplace returns at most one file per path.
C27_OneFilePerPath ==
    \A i, j \in 1..Len(modelFiles) :
        modelFiles[i].path = modelFiles[j].path => i = j

\* the files the loop of safeReplace collected, when it raised nothing
Collected == SafeReplaceFiles(ticket, scopeFiles)

\* the bytes of the rewritten content of a collected file
Size(file) == ByteLength(Base64Decode(file.contents_base64.v))

\* the messages of the shape checks of validateModelFiles
ShapeErrors ==
    {"Refusing to modify more than MAX_FILES files.",
     "Decoded contents empty",
     "Decoded contents exceed MAX_FILE_SIZE bytes"}

\* C23: a non-empty result of safeReplace passed the shape checks of the
\* validator: at most MAX_FILES files, each non-empty, at most MAX_FILE_SIZE
\* bytes and on a path inside the scope; a collected set that breaks one of
\* these makes the call fail with the validator's error.
C23_ResultPassedShapeChecks ==
    /\ (pc = "returned" /\ modelFiles # <<>>)
           => /\ Len(modelFiles) <= MAX_FILES
              /\ \A i \in 1..Len(modelFiles) :
                     /\ modelFiles[i].contents # <<>>
                     /\ ByteLength(Utf8Encode(modelFiles[i].contents)) <= MAX_FILE_SIZE
                     /\ IsWithinScope(modelFiles[i].path, ticket.scope)
    /\ Called
           => \E c \in {Collected} :
                  c.err = "none"
                      => /\ Len(c.files) > MAX_FILES
                                => (pc = "threw"
                                    /\ error = "Refusing to modify more than MAX_FILES files.")
                         /\ (\E i \in 1..Len(c.files) :
                                 Size(c.files[i]) = 0 \/ Size(c.files[i]) > MAX_FILE_SIZE)
                                => (pc = "threw" /\ error \in ShapeErrors)
                         /\ (Len(c.files) = 1 /\ Size(c.files[1]) = 0)
                                => error = "Decoded contents empty"
                         /\ (Len(c.files) = 1 /\ Size(c.files[1]) > MAX_FILE_SIZE)
                                => error = "Decoded contents exceed MAX_FILE_SIZE bytes"

\* C23 witness: a rewritten file of exactly MAX_FILE_SIZE bytes was returned
C23_LargestFileReturned ==
    /\ pc = "returned"
    /\ Len(modelFiles) = 1
    /\ ByteLength(Utf8Encode(modelFiles[1].contents)) = MAX_FILE_SIZE

(***************************************************************************)
(* Properties of color presets.                                            *)
(***************************************************************************)
\* the call had one directive, whose rules come from its color_preset
PresetCall ==
    /\ Len(Directives) = 1
    /\ Directives[1].t = "object"
    /\ Directives[1].replacements = Undef
    /\ Directives[1].color_preset.t = "object"

ThePreset == Directives[1].color_preset

\* the content of the file once the rules were applied
FinalContent ==
    IF modelFiles # <<>> THEN modelFiles[1].contents
    ELSE FetchedContent(Directives[1].path.v)

\* the palette colours other than the target
OtherColors(target) ==
    {COLOR_PRESET_COLORS[c] : c \in 1..Len(COLOR_PRESET_COLORS)} \ {target}

\* C29: once the rules of a valid color preset with target T were applied,
\* no token K-C-S with K a kind and S a shade of the preset and C a palette
\* colour other than T remains in the content.
C29_NoOtherColourRemains ==
    (pc = "returned" /\ PresetCall)
        => \A k \in 1..Len(ThePreset.kinds.v), s \in 1..Len(ThePreset.shades.v) :
               \A color \in OtherColors(ThePreset.target.v[1]) :
                   ~Includes(FinalContent,
                             ColorToken(ThePreset.kinds.v[k].v, color,
                                        ThePreset.shades.v[s].v))

\* the preset given to buildColorPresetReplacements
GivenPreset == ticket.safe_replace.v[1].color_preset

\* the lists the expansion runs over: an absent or empty list stands for
\* its default, the kind text and the shade 500
KindsOf(preset) ==
    IF IsArray(preset.kinds) /\ Len(preset.kinds.v) > 0
    THEN [i \in 1..Len(preset.kinds.v) |-> TrimmedString(preset.kinds.v[i])]
    ELSE <<<<"text">>>>

ShadesOf(preset) ==
    IF IsArray(preset.shades) /\ Len(preset.shades.v) > 0
    THEN [i \in 1..Len(preset.shades.v) |-> TrimmedString(preset.shades.v[i])]
    ELSE <<<<"500">>>>

\* a preset object whose target is a palette colour and whose kinds and
\* shades are all recognized
Recognized(preset) ==
    /\ preset.t = "object"
    /\ Len(TrimmedString(preset.target)) = 1
    /\ \E c \in 1..Len(COLOR_PRESET_COLORS) :
           COLOR_PRESET_COLORS[c] = TrimmedString(preset.target)[1]
    /\ \A i \in 1..Len(KindsOf(preset)) : KindsOf(preset)[i] \in COLOR_PRESET_KIND_SET
    /\ \A j \in 1..Len(ShadesOf(preset)) : ShadesOf(preset)[j] \in COLOR_PRESET_SHADE_SET

\* the search tokens of a generated rule
Listed(rule) == {rule.find_any.v[n].v : n \in 1..Len(rule.find_any.v)}

\* C21: for a recognized target and lists of recognized kinds and shades the
\* expansion returns one rule for each (kind, shade) pair, kinds first; the
\* replace of the rule of (K, S) is K-T-S and its find_any holds K-C-S for
\* every palette colour C other than the target T.
C21_OneRulePerKindAndShade ==
    (pc \in {"built", "threw"} /\ Recognized(GivenPreset))
        => /\ pc = "built"
           /\ Len(presetRules) = Len(KindsOf(GivenPreset)) * Len(ShadesOf(GivenPreset))
           /\ \A i \in 1..Len(KindsOf(GivenPreset)), j \in 1..Len(ShadesOf(GivenPreset)) :
                  \E rule \in {presetRules[(i - 1) * Len(ShadesOf(GivenPreset)) + j]} :
                      /\ rule.replace
                             = Str(ColorToken(KindsOf(GivenPreset)[i],
                                              TrimmedString(GivenPreset.target)[1],
                                              ShadesOf(GivenPreset)[j]))
                      /\ IsArray(rule.find_any)
                      /\ \A color \in OtherColors(TrimmedString(GivenPreset.target)[1]) :
                             ColorToken(KindsOf(GivenPreset)[i], color,
                                        ShadesOf(GivenPreset)[j]) \in Listed(rule)

\* C21 witness: two kinds and two shades gave four rules
C21_FourRules ==
    /\ pc = "built"
    /\ Recognized(GivenPreset)
    /\ Len(presetRules) = 4
    /\ presetRules[2].replace # presetRules[3].replace
    /\ KindsOf(GivenPreset)[1] # KindsOf(GivenPreset)[2]
    /\ ShadesOf(GivenPreset)[1] # ShadesOf(GivenPreset)[2]

(***************************************************************************)
(* Properties of the selection of the ticket block.                        *)
(***************************************************************************)
\* no block at all
NoBlock == [kind |-> "none", obj |-> NoObj]

\* the block the precedence front matter, fenced block, heading selects,
\* a fence counting as a fenced block when its tag is one of tags
ByPrecedence(d, tags) ==
    IF d.front.kind # "absent" THEN d.front
    ELSE IF d.fenced.kind # "absent" /\ d.fence \in tags THEN d.fenced
    ELSE IF d.heading.kind # "absent" THEN d.heading
    ELSE NoBlock

\* parseTicket ran on doc and its outcome is the outcome of the block b
\* alone, whatever the forms after it hold
OutcomeOf(b) ==
    /\ b.kind \in {"none", "empty"}
           => (pc = "failed" /\ error = "Unable to locate ticket YAML block.")
    /\ b.kind = "malformed" => (pc = "failed" /\ error = "Failed to parse ticket YAML")
    /\ b.kind = "scalar"
           => (pc = "failed" /\ error = "Ticket YAML did not produce an object.")
    /\ (b.kind = "object" /\ b.obj.scope = GoodObj.scope /\ MissingField(b.obj) = "none"
        /\ b.obj.guardrails = Undef)
           => (pc = "fetch" /\ ticket.title = b.obj.title.v)

Parsed == pc # "parse" /\ doc.exists

=============================================================================
